---- MODULE Spec2Model ----
(***************************************************************************)
(* The /agent/ask pipeline of the Polymarket analyst agent                 *)
(* (src/backend/app): session memory, tool planner, tool executor, result  *)
(* formatters and the upstream client functions the executor calls.        *)
(*                                                                         *)
(* A request is served in the steps between which the handler awaits:      *)
(*   Receive        agent_ask lines 229-240 (query check, session lookup)  *)
(*   BuildPrompt    plan_with_tools lines 23-32 in its worker thread       *)
(*   PlannerReturns plan_with_tools returns or raises, then agent_ask      *)
(*                  lines 242-337 up to the branch's upstream call         *)
(*   UpstreamFails, MarketsReturn, TradesReturn, OrderBookReturn,          *)
(*   HoldersReturn, TradersReturn, ClosedReturn, DetailsReturn             *)
(*                  the upstream client function raises or returns, then   *)
(*                  the branch's session write-back and formatting         *)
(*   SummaryReturns the secondary asi_chat of _summarize_trader_with_ai    *)
(*   Deliver        the response (or the exception) leaves the handler     *)
(***************************************************************************)
EXTENDS Integers, Sequences, FiniteSets, TLC

VARIABLES
    SESSION_MEMORY,   \* memory.py: session id -> context record
    pc,               \* per request: where the handler is suspended
    req,              \* per request: payload and query parameters
    plan,             \* per request: tool_name and parsed arguments
    result,           \* per request: raw result of the tool
    response,         \* per request: what agent_ask returned or raised
    trace,            \* per request: calls made and replies received, in order
    before,           \* per request: SESSION_MEMORY when the handler was entered
    served,           \* number of requests delivered so far
    last_write,       \* per session id and field: who wrote it, and what, last
    looked_up,        \* session ids looked up and not cleared since
    last_call         \* the last direct call of a library function

vars == <<SESSION_MEMORY, pc, req, plan, result, response, trace, before, served,
          last_write, looked_up, last_call>>

\* what only direct calls of the library functions change
lib == <<looked_up, last_call>>

\* what the request handlers change
handlers == <<pc, req, plan, result, response, trace, before, served, last_write>>

(***************************************************************************)
(* Bounds of the model.                                                    *)
(***************************************************************************)
MaxRequests == 2      \* requests served in one run
MaxMarkets == 2       \* entries in an upstream markets payload

(***************************************************************************)
(* Python scalar values.  A dict key that is absent is the value Absent;   *)
(* None is Null.  Every scalar has the same three fields so that any two   *)
(* can be compared.                                                        *)
(***************************************************************************)
Absent == [t |-> "absent", s |-> "", n |-> 0]
Null == [t |-> "none", s |-> "", n |-> 0]
Str(x) == [t |-> "str", s |-> x, n |-> 0]
Num(k) == [t |-> "num", s |-> "", n |-> k]
Bool(b) == [t |-> "bool", s |-> "", n |-> IF b THEN 1 ELSE 0]

\* dict.get(key): an absent key reads as None
Get(v) == IF v.t = "absent" THEN Null ELSE v

\* dict.get(key, default)
GetDefault(v, d) == IF v.t = "absent" THEN d ELSE v

\* Python truthiness of a scalar
Truthy(v) ==
    CASE v.t = "absent" -> FALSE
      [] v.t = "none" -> FALSE
      [] v.t = "str" -> v.s # ""
      [] v.t = "num" -> v.n # 0
      [] v.t = "bool" -> v.n = 1

\* Python `a or b`
Or(a, b) == IF Truthy(a) THEN a ELSE b

Digits == <<"0", "1", "2", "3", "4", "5", "6", "7", "8", "9">>

\* str(v), also inside an f-string
PyStr(v) ==
    CASE v.t = "none" -> "None"
      [] v.t = "str" -> v.s
      [] v.t = "bool" -> IF v.n = 1 THEN "True" ELSE "False"
      [] v.t = "num" -> Digits[v.n + 1]
      [] OTHER -> ""

(***************************************************************************)
(* memory.py: SESSION_MEMORY is a dict from session id to a context dict.  *)
(* A context has at most the keys last_condition_id, last_trader_address   *)
(* and last_markets; a key the dict does not hold is Absent / NoMarkets.   *)
(***************************************************************************)
SessionIds == {"s1", "s2"}

NoMarkets == [present |-> FALSE, items |-> <<>>]
MarketList(ms) == [present |-> TRUE, items |-> ms]

EmptyContext ==
    [last_condition_id |-> Absent,
     last_trader_address |-> Absent,
     last_markets |-> NoMarkets]

\* the `updates` dicts agent_ask passes: keys not given are Absent / NoMarkets
Updates(cid, addr, markets) ==
    [last_condition_id |-> cid,
     last_trader_address |-> addr,
     last_markets |-> markets]

\* if session_id not in SESSION_MEMORY: SESSION_MEMORY[session_id] = {}
EnsureRecord(mem, sid) ==
    IF sid \in DOMAIN mem
    THEN mem
    ELSE [k \in DOMAIN mem \cup {sid} |-> IF k = sid THEN EmptyContext ELSE mem[k]]

GetResets(mem, sid) ==
    [k \in DOMAIN mem \cup {sid} |-> IF k = sid THEN EmptyContext ELSE mem[k]]

\* the store after get_session_context(session_id); it returns that record
get_session_context(mem, sid) == EnsureRecord(mem, sid)

DictReplace(ctx, updates) == updates

DictSetDefault(ctx, updates) ==
    [last_condition_id |->
        IF ctx.last_condition_id.t = "absent"
        THEN updates.last_condition_id ELSE ctx.last_condition_id,
     last_trader_address |->
        IF ctx.last_trader_address.t = "absent"
        THEN updates.last_trader_address ELSE ctx.last_trader_address,
     last_markets |->
        IF ctx.last_markets.present
        THEN ctx.last_markets ELSE updates.last_markets]

\* dict.update(updates): replace by key
DictUpdate(ctx, updates) ==
    [last_condition_id |->
        IF updates.last_condition_id.t = "absent"
        THEN ctx.last_condition_id ELSE updates.last_condition_id,
     last_trader_address |->
        IF updates.last_trader_address.t = "absent"
        THEN ctx.last_trader_address ELSE updates.last_trader_address,
     last_markets |->
        IF updates.last_markets.present
        THEN updates.last_markets ELSE ctx.last_markets]

UpdateOverwrites(mem, sid, updates) ==
    LET m == EnsureRecord(mem, sid)
    IN  [m EXCEPT ![sid] = DictUpdate(EmptyContext, updates)]

\* the store after update_session_context(session_id, updates)
update_session_context(mem, sid, updates) ==
    LET m == EnsureRecord(mem, sid)
    IN  [m EXCEPT ![sid] = DictUpdate(m[sid], updates)]

\* the record of writes: per field the requests that wrote it, the last of
\* them and the value it wrote
Unwritten(v) == [by |-> {}, last |-> "", val |-> v]

NoWrites ==
    [sid \in SessionIds |->
        [last_condition_id |-> Unwritten(Absent),
         last_trader_address |-> Unwritten(Absent),
         last_markets |-> Unwritten(NoMarkets)]]

WrittenBy(w, r, v) == [by |-> w.by \cup {r}, last |-> r, val |-> v]

\* the record of writes after r called update_session_context(sid, updates)
Logged(lw, r, sid, updates) ==
    [lw EXCEPT ![sid] =
        [last_condition_id |->
            IF updates.last_condition_id.t = "absent" THEN @.last_condition_id
            ELSE WrittenBy(@.last_condition_id, r, updates.last_condition_id),
         last_trader_address |->
            IF updates.last_trader_address.t = "absent" THEN @.last_trader_address
            ELSE WrittenBy(@.last_trader_address, r, updates.last_trader_address),
         last_markets |->
            IF ~updates.last_markets.present THEN @.last_markets
            ELSE WrittenBy(@.last_markets, r, updates.last_markets)]]

ClearAll(mem, sid) == [k \in {} |-> EmptyContext]

\* the store after clear_session_context(session_id)
clear_session_context(mem, sid) ==
    [k \in DOMAIN mem \ {sid} |-> mem[k]]

(***************************************************************************)
(* polymarket_client.py: the upstream HTTP call and market normalization.  *)
(***************************************************************************)

\* _request_json: how one upstream GET can end.  "ok" returns the parsed
\* body; "http_error" (status # 200) and "bad_json" raise PolymarketAPIError;
\* "timeout" is the requests exception of timeout=30.
HttpStatuses == {"ok", "http_error", "bad_json", "timeout"}

\* the exception _request_json raises for a status, "" when it returns
_request_json(status) ==
    CASE status = "ok" -> ""
      [] status = "http_error" -> "PolymarketAPIError"
      [] status = "bad_json" -> "PolymarketAPIError"
      [] status = "timeout" -> "requests.Timeout"

SafeStrBlanks(val) == IF val.t = "str" THEN val.s ELSE ""

\* _safe_str
_safe_str(val) == IF val.t = "none" THEN "" ELSE PyStr(val)

\* float(str): the strings Python parses as a number
IsNumeric(str) == \E i \in 1..Len(Digits) : Digits[i] = str
FloatOf(str) == (CHOOSE i \in 1..Len(Digits) : Digits[i] = str) - 1

\* _safe_float: numbers (bool is an int) and numeric strings convert, a
\* string float() rejects raises inside the try, anything else falls through
_safe_float(val) ==
    CASE val.t \in {"num", "bool"} -> val.n
      [] val.t = "str" -> IF IsNumeric(val.s) THEN FloatOf(val.s) ELSE 0
      [] OTHER -> 0

\* one entry of an upstream markets list: a JSON object with these keys
\* (Absent when the object lacks the key), or something that is no object
RawMarket(id, question, conditionId, liquidity, active) ==
    [isobj |-> TRUE, id |-> id, question |-> question, title |-> Absent,
     conditionId |-> conditionId, slug |-> Absent, category |-> Absent,
     liquidityNum |-> Absent, liquidity |-> liquidity,
     volumeNum |-> Absent, volume |-> Absent,
     startDate |-> Absent, startDateIso |-> Absent,
     endDate |-> Absent, endDateIso |-> Absent,
     active |-> active, closed |-> Absent]

NotAnObject == [RawMarket(Absent, Absent, Absent, Absent, Absent) EXCEPT !.isobj = FALSE]

\* _normalize_market
_normalize_market(m) ==
    [id |-> _safe_str(Get(m.id)),
     question |-> _safe_str(Or(Get(m.question), Get(m.title))),
     conditionId |-> _safe_str(Get(m.conditionId)),
     slug |-> _safe_str(Get(m.slug)),
     category |-> _safe_str(Get(m.category)),
     liquidity |-> _safe_float(Or(Get(m.liquidityNum), Get(m.liquidity))),
     volume |-> _safe_float(Or(Get(m.volumeNum), Get(m.volume))),
     startDate |-> _safe_str(Or(Get(m.startDate), Get(m.startDateIso))),
     endDate |-> _safe_str(Or(Get(m.endDate), Get(m.endDateIso))),
     active |-> Truthy(GetDefault(m.active, Bool(FALSE))),
     closed |-> Truthy(GetDefault(m.closed, Bool(FALSE)))]

\* [x for x in xs if isinstance(x, dict)]
RECURSIVE OnlyObjects(_)
OnlyObjects(xs) ==
    IF xs = <<>> THEN <<>>
    ELSE (IF Head(xs).isobj THEN <<Head(xs)>> ELSE <<>>) \o OnlyObjects(Tail(xs))

\* [_normalize_market(m) for m in markets]
RECURSIVE NormalizeAll(_)
NormalizeAll(ms) ==
    IF ms = <<>> THEN <<>>
    ELSE <<_normalize_market(Head(ms))>> \o NormalizeAll(Tail(ms))

\* the value of a key of an upstream envelope: absent, a list, or one object
NoField == [t |-> "absent", items |-> <<>>]
ListField(xs) == [t |-> "list", items |-> xs]
ObjectField(x) == [t |-> "dict", items |-> <<x>>]

\* truthiness of such a value: an absent key reads None, [] is falsy; the
\* objects of the model are never empty
FieldTruthy(f) == f.t = "dict" \/ (f.t = "list" /\ f.items # <<>>)

\* an upstream /markets body: a bare list, or an object with (possibly) the
\* keys data and markets, whose other keys are those of the object `own`, or
\* a value that is neither
ListBody(xs) ==
    [shape |-> "list", items |-> xs, data |-> NoField, markets |-> NoField,
     own |-> NotAnObject]
ObjectBody(data, markets) ==
    [shape |-> "dict", items |-> <<>>, data |-> data, markets |-> markets,
     own |-> RawMarket(Absent, Absent, Absent, Absent, Absent)]
BareObject(m) == [ObjectBody(NoField, NoField) EXCEPT !.own = m]
ScalarBody == [ListBody(<<>>) EXCEPT !.shape = "scalar"]

\* get_markets_normalized, on the body get_markets returned
get_markets_normalized(raw) ==
    LET picked ==
            IF raw.shape = "list" THEN raw.items
            ELSE IF raw.shape # "dict" THEN <<>>
            ELSE IF FieldTruthy(raw.data) THEN raw.data.items
            ELSE IF FieldTruthy(raw.markets) THEN raw.markets.items
            ELSE <<>>
    IN  NormalizeAll(OnlyObjects(picked))

\* xs[:k]
Take(xs, k) == IF Len(xs) <= k THEN xs ELSE SubSeq(xs, 1, k)

\* list.sort(key=..., reverse=True) on a list of [k |-> key, x |-> element]:
\* stable, so elements with equal keys keep their order
RECURSIVE InsertDesc(_, _)
InsertDesc(e, sorted) ==
    IF sorted = <<>> THEN <<e>>
    ELSE IF Head(sorted).k >= e.k
         THEN <<Head(sorted)>> \o InsertDesc(e, Tail(sorted))
         ELSE <<e>> \o sorted

RECURSIVE SortDesc(_)
SortDesc(keyed) ==
    IF keyed = <<>> THEN <<>>
    ELSE InsertDesc(keyed[Len(keyed)], SortDesc(SubSeq(keyed, 1, Len(keyed) - 1)))

Elements(keyed) == [i \in 1..Len(keyed) |-> keyed[i].x]

\* the length of the lists get_top_holders and get_top_traders_by_pnl return
TopN == 5

\* an upstream /holders body: a list of token records, each with a "holders"
\* value that is a list of holders or (islist FALSE) something else; the
\* amount of a holder is a number, or Absent
TokenData(islist, holders) == [islist |-> islist, holders |-> holders]
Holder(outcomeIndex, proxyWallet, name, amount) ==
    [outcomeIndex |-> outcomeIndex, proxyWallet |-> proxyWallet,
     name |-> name, pseudonym |-> Absent, amount |-> amount]
HoldersBody(shape, tokens) == [shape |-> shape, tokens |-> tokens]

\* outcome_index == 1 (True == 1 in Python), outcome_index == 0
PyEquals(v, k) == v.t \in {"num", "bool"} /\ v.n = k

\* the minimal_holder dict of a holder
minimal_holder(holder) ==
    [address |-> Get(holder.proxyWallet),
     username |-> Or(Get(holder.name), Get(holder.pseudonym)),
     amount |-> GetDefault(holder.amount, Num(0))]

\* the holders of all token records, in order (lines 70-75)
RECURSIVE FlattenHolders(_)
FlattenHolders(tokens) ==
    IF tokens = <<>> THEN <<>>
    ELSE (IF Head(tokens).islist THEN Head(tokens).holders ELSE <<>>)
         \o FlattenHolders(Tail(tokens))

\* the minimal holders whose outcomeIndex equals k, in order (lines 76-87)
RECURSIVE HoldersOf(_, _)
HoldersOf(holders, k) ==
    IF holders = <<>> THEN <<>>
    ELSE (IF PyEquals(Get(Head(holders).outcomeIndex), k)
          THEN <<minimal_holder(Head(holders))>> ELSE <<>>)
         \o HoldersOf(Tail(holders), k)

\* key=lambda x: x.get("amount", 0)
ByAmount(hs) == [i \in 1..Len(hs) |-> [k |-> hs[i].amount.n, x |-> hs[i]]]

FirstHoldersUnsorted(raw_data) ==
    IF raw_data.shape # "list"
    THEN [yes |-> <<>>, no |-> <<>>]
    ELSE LET all == FlattenHolders(raw_data.tokens)
         IN  [yes |-> Take(HoldersOf(all, 1), TopN), no |-> Take(HoldersOf(all, 0), TopN)]

\* get_top_holders, on the body get_holders returned
get_top_holders(raw_data) ==
    IF raw_data.shape # "list"
    THEN [yes |-> <<>>, no |-> <<>>]
    ELSE LET all == FlattenHolders(raw_data.tokens)
         IN  [yes |-> Take(Elements(SortDesc(ByAmount(HoldersOf(all, 1)))), TopN),
              no |-> Take(Elements(SortDesc(ByAmount(HoldersOf(all, 0)))), TopN)]

\* one entry of an upstream /positions list; cashPnl is a number, or Absent
Position(proxyWallet, cashPnl, title, name) ==
    [proxyWallet |-> proxyWallet, cashPnl |-> cashPnl, title |-> title,
     name |-> name, pseudonym |-> Absent]
PositionsBody(shape, positions) == [shape |-> shape, positions |-> positions]

\* the trader_pnl entry of a new address (the defaultdict's factory); max_pnl
\* -inf is hasmax FALSE
NewTrader(address) ==
    [address |-> address, total_pnl |-> 0, most_profitable_market |-> Null,
     hasmax |-> FALSE, max_pnl |-> 0, username |-> Null]

AddPositionLastWins(entry, pos) ==
    LET username == Or(Get(pos.name), Get(pos.pseudonym))
        pnl == GetDefault(pos.cashPnl, Num(0)).n
        better == ~entry.hasmax \/ pnl >= entry.max_pnl
    IN  [entry EXCEPT
            !.total_pnl = @ + pnl,
            !.username = IF ~Truthy(@) /\ Truthy(username) THEN username ELSE @,
            !.hasmax = TRUE,
            !.max_pnl = IF better THEN pnl ELSE @,
            !.most_profitable_market = IF better THEN Get(pos.title) ELSE @]

\* one turn of the loop at lines 116-131 on the entry of the position's address
AddPosition(entry, pos) ==
    LET username == Or(Get(pos.name), Get(pos.pseudonym))
        pnl == GetDefault(pos.cashPnl, Num(0)).n
        better == ~entry.hasmax \/ pnl > entry.max_pnl
    IN  [entry EXCEPT
            !.total_pnl = @ + pnl,
            !.username = IF ~Truthy(@) /\ Truthy(username) THEN username ELSE @,
            !.hasmax = TRUE,
            !.max_pnl = IF better THEN pnl ELSE @,
            !.most_profitable_market = IF better THEN Get(pos.title) ELSE @]

\* trader_pnl after the positions, as the list of its entries in insertion order
RECURSIVE Aggregate(_, _)
Aggregate(positions, table) ==
    IF positions = <<>> THEN table
    ELSE LET pos == Head(positions)
             address == Get(pos.proxyWallet)
             known == \E i \in 1..Len(table) : table[i].address = address
             next ==
                IF ~Truthy(address) THEN table
                ELSE IF known
                     THEN [i \in 1..Len(table) |->
                              IF table[i].address = address
                              THEN AddPosition(table[i], pos) ELSE table[i]]
                     ELSE Append(table, AddPosition(NewTrader(address), pos))
         IN  Aggregate(Tail(positions), next)

\* the summary dict of a trader_pnl entry (lines 134-140)
RECURSIVE Summaries(_)
Summaries(table) ==
    IF table = <<>> THEN <<>>
    ELSE <<[address |-> Head(table).address,
            username |-> Head(table).username,
            total_pnl |-> Head(table).total_pnl,
            most_profitable_market |-> Head(table).most_profitable_market]>>
         \o Summaries(Tail(table))

\* key=lambda x: x.get("total_pnl", 0)
ByTotalPnl(ts) == [i \in 1..Len(ts) |-> [k |-> ts[i].total_pnl, x |-> ts[i]]]

\* the summary list before it is sorted (lines 111-140)
trader_summary(positions) ==
    IF positions.shape # "list" THEN <<>>
    ELSE Summaries(Aggregate(positions.positions, <<>>))

TopTradersLatestFirst(positions) ==
    LET summary == trader_summary(positions)
        latest == [i \in 1..Len(summary) |-> summary[Len(summary) + 1 - i]]
    IN  Take(Elements(SortDesc(ByTotalPnl(latest))), TopN)

\* get_top_traders_by_pnl, on the body get_positions returned
get_top_traders_by_pnl(positions) ==
    Take(Elements(SortDesc(ByTotalPnl(trader_summary(positions)))), TopN)

(***************************************************************************)
(* tool_definitions.py: the catalog handed to the planning model.          *)
(***************************************************************************)
ALL_TOOLS ==
    <<"get_markets", "get_trades_for_condition", "get_trader_details",
      "get_order_book", "get_top_holders", "get_top_traders_by_pnl",
      "get_closed_positions_for_user">>

get_tool_schemas == ALL_TOOLS

ToolNames == {ALL_TOOLS[i] : i \in 1..Len(ALL_TOOLS)}

(***************************************************************************)
(* The chat model's reply and tool_planner.plan_with_tools.                *)
(***************************************************************************)

\* the parsed JSON object of an arguments string: the keys the catalog
\* declares, each Absent when the object lacks it
ArgObject(condition_id, market_id, address, limit) ==
    [condition_id |-> condition_id, market_id |-> market_id,
     address |-> address, limit |-> limit]

NoArgs == ArgObject(Absent, Absent, Absent, Absent)

\* the "arguments" value of a tool call's function:
\*   missing      the key is absent
\*   none         the key holds null
\*   malformed    a string that is not JSON
\*   json_list    a JSON string of a non-object (a list)
\*   json_object  a JSON string of the object obj
ArgText(shape, obj) == [shape |-> shape, obj |-> obj]

\* a Python value json.loads returned: a list or the dict obj
ListValue == [shape |-> "list", obj |-> NoArgs]
DictValue(obj) == [shape |-> "dict", obj |-> obj]

\* tool_call["function"]: name is Absent, Null or a string
ToolCall(name, arguments) == [name |-> name, arguments |-> arguments]

\* what asi_chat gives the planner:
\*   transport_error    asi_chat raises (no key, connection, HTTP status)
\*   no_choices         the body has no "choices" key
\*   empty_choices      "choices" is []
\*   no_message         choices[0] has no "message" key
\*   null_message       choices[0]["message"] is null
\*   no_tool_calls      the message has content and no "tool_calls" key
\*   null_tool_calls    "tool_calls" is null
\*   tool_calls         "tool_calls" is the list calls (possibly empty)
ModelReply(kind, calls) == [kind |-> kind, calls |-> calls]

\* what plan_with_tools ends with: exc is the exception it raises ("" when
\* it returns), isnone says that it returned None, calls is the list returned
Planned(exc, isnone, calls) == [exc |-> exc, isnone |-> isnone, calls |-> calls]

UnsupportedCall == ToolCall(Str("unsupported"), ArgText("json_object", NoArgs))

\* plan_with_tools lines 36-48
plan_with_tools(reply) ==
    CASE reply.kind = "transport_error" -> Planned("RequestException", FALSE, <<>>)
      [] reply.kind = "empty_choices" -> Planned("IndexError", FALSE, <<>>)
      [] reply.kind \in {"no_choices", "no_message", "null_message", "no_tool_calls"} ->
            Planned("", FALSE, <<UnsupportedCall>>)
      [] reply.kind = "null_tool_calls" -> Planned("", TRUE, <<>>)
      [] reply.kind = "tool_calls" -> Planned("", FALSE, reply.calls)

\* json.loads(function_call.get("arguments", "{}")): the exception raised
\* ("" when none) and the value returned
json_loads_arguments(text) ==
    CASE text.shape = "missing" -> [exc |-> "", value |-> DictValue(NoArgs)]
      [] text.shape = "none" -> [exc |-> "TypeError", value |-> DictValue(NoArgs)]
      [] text.shape = "malformed" -> [exc |-> "JSONDecodeError", value |-> DictValue(NoArgs)]
      [] text.shape = "json_list" -> [exc |-> "", value |-> ListValue]
      [] text.shape = "json_object" -> [exc |-> "", value |-> DictValue(text.obj)]

(***************************************************************************)
(* Raw results of the tools and agent_routes.py's result formatters.       *)
(***************************************************************************)

\* an upstream body of rows (/trades, /positions, /closed-positions): a JSON
\* list or a JSON object, with n entries
Rows(shape, n) == [shape |-> shape, n |-> n]

\* the body of the order-book endpoint: a JSON object whose keys error,
\* order_books and condition_id agent_ask reads
BookData(error, order_books, condition_id) ==
    [error |-> error, order_books |-> order_books, condition_id |-> condition_id]

\* what summarize_trader_details returns
TraderDetails(address, positions, trades) ==
    [address |-> address, positions |-> positions, trades |-> trades]

\* how one of the three GETs of summarize_trader_details ended
Fetched(status, body) == [status |-> status, body |-> body]

\* summarize_trader_details lines 337-349: the three GETs in turn, none inside
\* a try; exc is the exception that leaves the function, "" when it returns
summarize_trader_details(address, positions, trades, closed_positions) ==
    LET raised ==
            IF positions.status # "ok" THEN _request_json(positions.status)
            ELSE IF trades.status # "ok" THEN _request_json(trades.status)
            ELSE _request_json(closed_positions.status)
    IN  IF raised # ""
        THEN [exc |-> raised,
              details |-> TraderDetails(Absent, Rows("list", 0), Rows("list", 0)),
              closed_positions |-> Rows("list", 0)]
        ELSE [exc |-> "",
              details |-> TraderDetails(address, positions.body, trades.body),
              closed_positions |-> closed_positions.body]

\* the variable `result` of agent_ask: kind says which field holds it
NoResult ==
    [kind |-> "none",
     markets |-> <<>>,
     rows |-> Rows("list", 0),
     book |-> BookData(Absent, Absent, Absent),
     holders |-> [yes |-> <<>>, no |-> <<>>],
     traders |-> <<>>,
     details |-> TraderDetails(Absent, Rows("list", 0), Rows("list", 0))]

\* a formatted text is a sequence of parts: a literal value, or the
\* rendering of the request's result by the named formatter
Lit(v) == [fn |-> "", val |-> v]
Rendered(fn) == [fn |-> fn, val |-> Absent]

\* what a formatter ends with: the exception raised ("" when none), the text
Formatted(text) == [exc |-> "", text |-> text]
FormatRaises(exc) == [exc |-> exc, text |-> <<>>]

_format_markets_text(markets) ==
    IF markets = <<>>
    THEN Formatted(<<Lit(Str("No markets found."))>>)
    ELSE Formatted(<<Rendered("_format_markets_text")>>)

\* trades[0] of a non-empty JSON object raises KeyError
_format_trades_text(trades) ==
    IF trades.n = 0
    THEN Formatted(<<Lit(Str("No trades found for this market."))>>)
    ELSE IF trades.shape # "list" THEN FormatRaises("KeyError")
    ELSE Formatted(<<Rendered("_format_trades_text")>>)

\* positions[:5] and trades[:5] of a non-empty JSON object raise (TypeError
\* before Python 3.12, KeyError from it on)
_format_trader_details_text(details) ==
    IF (details.positions.n > 0 /\ details.positions.shape # "list")
       \/ (details.trades.n > 0 /\ details.trades.shape # "list")
    THEN FormatRaises("TypeError")
    ELSE Formatted(<<Rendered("_format_trader_details_text")>>)

\* called with result_data when it holds "error", else with its order_books
_format_order_book_text(book) ==
    IF book.error.t # "absent"
    THEN Formatted(<<Lit(Get(book.error))>>)
    ELSE IF ~Truthy(book.order_books)
    THEN Formatted(<<Lit(Str("Order book data is not available."))>>)
    ELSE Formatted(<<Rendered("_format_order_book_text")>>)

\* a trade, of which the text shows (among fields read with .get) the time
Trade(timestamp) == [timestamp |-> timestamp]

\* lines 52-53 and 91-92 for trades[:limit]: the minute each entry's line
\* shows is the trade's timestamp, or the clock's reading `now` when the
\* timestamp is missing, null or 0
trade_stamps(trades, limit, now) ==
    [i \in 1..(IF Len(trades) <= limit THEN Len(trades) ELSE limit) |->
        IF Truthy(Get(trades[i].timestamp)) THEN trades[i].timestamp.n ELSE now]

\* the orders listed per side (bids[:5], asks[:5])
BookDepth == 5

\* an order of a book: price and size are numbers, or Absent
Order(price, size) == [price |-> price, size |-> size]

\* the record of one outcome: its error (Absent without one), bids and asks
OutcomeBook(error, bids, asks) == [error |-> error, bids |-> bids, asks |-> asks]

\* a line of the text: what it is, and the price and size an order line shows
Line(kind, price, size) == [kind |-> kind, price |-> price, size |-> size]

\* float(order.get('price', 0)) and float(order.get('size', 0))
OrderLine(order) ==
    Line("order", GetDefault(order.price, Num(0)).n, GetDefault(order.size, Num(0)).n)

ListedUnsorted(orders, descending) ==
    Take([i \in 1..Len(orders) |-> OrderLine(orders[i])], BookDepth)

\* sorted(orders, key=price, reverse=descending)[:5]; sorted is stable, as is
\* the descending sort of the negated keys
ListedOrders(orders, descending) ==
    LET keyed == [i \in 1..Len(orders) |->
                    [k |-> IF descending THEN OrderLine(orders[i]).price
                           ELSE 0 - OrderLine(orders[i]).price,
                     x |-> OrderLine(orders[i])]]
    IN  Take(Elements(SortDesc(keyed)), BookDepth)

\* lines 110-134 for one outcome
OutcomeLines(outcome, book) ==
    <<Line(outcome, 0, 0)>>
    \o IF book.error.t # "absent" THEN <<Line("error", 0, 0)>>
       ELSE <<Line("market", 0, 0), Line("tick_size", 0, 0), Line("min_order_size", 0, 0),
              Line("bids", 0, 0)>>
            \o (IF book.bids = <<>> THEN <<Line("No bids", 0, 0)>> ELSE <<>>)
            \o ListedOrders(book.bids, TRUE)
            \o <<Line("asks", 0, 0)>>
            \o (IF book.asks = <<>> THEN <<Line("No asks", 0, 0)>> ELSE <<>>)
            \o ListedOrders(book.asks, FALSE)

\* the lines _format_order_book_text joins for a book without "error"
order_book_lines(order_book) ==
    <<Line("summary", 0, 0)>>
    \o OutcomeLines("yes", order_book.yes) \o OutcomeLines("no", order_book.no)

_format_top_holders_text(top_holders) ==
    IF top_holders.yes = <<>> /\ top_holders.no = <<>>
    THEN Formatted(<<Lit(Str("No holder information available."))>>)
    ELSE Formatted(<<Rendered("_format_top_holders_text")>>)

_format_top_traders_text(traders) ==
    IF traders = <<>>
    THEN Formatted(<<Lit(Str("No top trader information available."))>>)
    ELSE Formatted(<<Rendered("_format_top_traders_text")>>)

\* iterating a JSON object yields its keys, and str has no .get
_format_closed_positions_text(positions) ==
    IF positions.n = 0
    THEN Formatted(<<Lit(Str("No closed positions found for this trader."))>>)
    ELSE IF positions.shape # "list" THEN FormatRaises("AttributeError")
    ELSE Formatted(<<Rendered("_format_closed_positions_text")>>)

\* _summarize_trader_with_ai lines 188-204, before the try: slicing a JSON
\* object raises; "" when the prompt is built
SummaryPromptRaises(details) ==
    IF details.positions.shape # "list" \/ details.trades.shape # "list"
    THEN "TypeError" ELSE ""

\* the secondary model reply: the kinds of ModelReply without tool calls, and
\*   no_content    the message has no "content" key
\*   null_content  "content" is null
\*   content       "content" is the string text
SummaryReply(kind, text) == [kind |-> kind, text |-> text]

\* _summarize_trader_with_ai lines 214-220: the summary returned
_summarize_trader_with_ai(reply) ==
    CASE reply.kind \in {"transport_error", "empty_choices", "null_message"} ->
            Str("Could not generate AI summary due to an error.")
      [] reply.kind \in {"no_choices", "no_message", "no_content"} ->
            Str("Could not generate summary.")
      [] reply.kind = "null_content" -> Null
      [] reply.kind = "content" -> Str(reply.text)

(***************************************************************************)
(* What agent_ask ends with.                                               *)
(***************************************************************************)
NoResponse ==
    [kind |-> "none", msg |-> <<>>, action |-> Absent,
     params |-> DictValue(NoArgs), text |-> <<>>, raw |-> NoResult]

\* {"error": msg}; msg is the message's pieces in order
ErrorResponse(msg) == [NoResponse EXCEPT !.kind = "error", !.msg = msg]

PlanResponseDefaults(tool_name, arguments) ==
    [NoResponse EXCEPT !.kind = "plan", !.action = tool_name]

\* {"plan": {"action": tool_name, "params": arguments}}
PlanResponse(tool_name, arguments) ==
    [NoResponse EXCEPT !.kind = "plan", !.action = tool_name, !.params = arguments]

\* lines 339-340: {"result": formatted_result if fmt == "text" else result}
ResultResponse(fmt, formatted_result, res) ==
    IF fmt = "text"
    THEN [NoResponse EXCEPT !.kind = "result", !.text = formatted_result]
    ELSE [NoResponse EXCEPT !.kind = "result", !.raw = res]

\* the handler raised: no response dict is returned
Raised(exc) == [NoResponse EXCEPT !.kind = "exception", !.msg = <<exc>>]

\* the handler is suspended in _summarize_trader_with_ai with this text built
Pending(formatted_result) ==
    [NoResponse EXCEPT !.kind = "pending", !.text = formatted_result]

ApologyText == <<Lit(Str("Sorry, I can't answer that question."))>>

(***************************************************************************)
(* agent_ask lines 264-337: the branch taken for a planned action, up to   *)
(* its upstream call.                                                      *)
(*   raise        the branch raises exc (arguments.get on a list)          *)
(*   missing      the required argument `field` is missing or falsy        *)
(*   call         the upstream client function fn is called with key       *)
(*   unsupported  the sentinel's branch                                    *)
(*   unknown      the else branch                                          *)
(***************************************************************************)
Branch(kind, exc, field, fn, key) ==
    [kind |-> kind, exc |-> exc, field |-> field, fn |-> fn, key |-> key]

RequiringNotNone(arguments, field, value, fn) ==
    IF arguments.shape # "dict" THEN Branch("raise", "AttributeError", "", "", Absent)
    ELSE IF Get(value).t = "none" THEN Branch("missing", "", field, "", Absent)
    ELSE Branch("call", "", field, fn, Get(value))

\* a branch that reads arguments[field] first and requires it
Requiring(arguments, field, value, fn) ==
    IF arguments.shape # "dict" THEN Branch("raise", "AttributeError", "", "", Absent)
    ELSE IF ~Truthy(Get(value)) THEN Branch("missing", "", field, "", Absent)
    ELSE Branch("call", "", field, fn, Get(value))

\* the branches of the seven catalog tools (lines 264-330)
CatalogDispatch(tool_name, arguments) ==
    CASE tool_name = Str("get_markets") ->
            IF arguments.shape # "dict"
            THEN Branch("raise", "AttributeError", "", "", Absent)
            ELSE Branch("call", "", "", "get_markets_normalized",
                        GetDefault(arguments.obj.limit, Num(5)))
      [] tool_name = Str("get_trades_for_condition") ->
            Requiring(arguments, "condition_id", arguments.obj.condition_id,
                      "get_trades_by_condition")
      [] tool_name = Str("get_order_book") ->
            Requiring(arguments, "market_id", arguments.obj.market_id,
                      "get_order_book")
      [] tool_name = Str("get_top_holders") ->
            Requiring(arguments, "condition_id", arguments.obj.condition_id,
                      "get_top_holders")
      [] tool_name = Str("get_top_traders_by_pnl") ->
            Branch("call", "", "", "get_top_traders_by_pnl", Absent)
      [] tool_name = Str("get_closed_positions_for_user") ->
            Requiring(arguments, "address", arguments.obj.address,
                      "get_closed_positions_for_user")
      [] tool_name = Str("get_trader_details") ->
            Requiring(arguments, "address", arguments.obj.address,
                      "summarize_trader_details")

\* the tool names that have a branch of their own
IsCatalogTool(tool_name) == tool_name.t = "str" /\ tool_name.s \in ToolNames

SentinelDispatchCalls(tool_name, arguments) ==
    IF IsCatalogTool(tool_name) THEN CatalogDispatch(tool_name, arguments)
    ELSE CatalogDispatch(Str("get_markets"), arguments)

\* the catalog branches and the sentinel's (lines 264-334)
SentinelDispatch(tool_name, arguments) ==
    IF IsCatalogTool(tool_name) THEN CatalogDispatch(tool_name, arguments)
    ELSE Branch("unsupported", "", "", "", Absent)

DispatchLenient(tool_name, arguments) ==
    SentinelDispatch(tool_name, arguments)

\* the whole if/elif chain (lines 264-337)
Dispatch(tool_name, arguments) ==
    IF IsCatalogTool(tool_name) \/ tool_name = Str("unsupported")
    THEN SentinelDispatch(tool_name, arguments)
    ELSE Branch("unknown", "", "", "", Absent)

\* the names of the upstream client functions agent_routes.py imports
\* the functions that polymarket_client.py defines
ClientFunctions ==
    {"_request_json", "get_events", "get_markets", "get_positions", "get_trades",
     "get_holders", "get_closed_positions", "get_order_book", "get_top_holders",
     "get_top_traders_by_pnl", "markets_above_volume", "_safe_str", "_safe_float",
     "_normalize_event", "get_events_normalized", "_normalize_market",
     "get_markets_normalized", "get_trades_by_condition", "summarize_trader_details",
     "infer_yes_no_from_price"}

\* the names that agent_routes.py imports from polymarket_client and calls
UpstreamFunctions ==
    {"get_markets_normalized", "get_trades_by_condition", "summarize_trader_details",
     "get_order_book", "get_top_holders", "get_top_traders_by_pnl",
     "get_closed_positions_for_user"}

(***************************************************************************)
(* The requests.                                                           *)
(***************************************************************************)
Requests == {"r1", "r2"}

NoRequest == [query |-> "", session_id |-> Null, execute |-> TRUE, fmt |-> "text"]
\* raw is the shape of the call's "arguments" value ("" without a call)
NoPlan ==
    [tool_name |-> Absent, raw |-> "", arguments |-> DictValue(NoArgs), key |-> Absent,
     reply_names |-> <<>>, user_message |-> <<>>]

NoMemory == [k \in {} |-> EmptyContext]

\* no library function has been called directly
NoCall == [fn |-> ""]

\* str.strip() on the query strings of the model
Strip(q) == IF q \in {"", "  "} THEN "" ELSE q

Init ==
    /\ SESSION_MEMORY = NoMemory
    /\ pc = [r \in Requests |-> "idle"]
    /\ req = [r \in Requests |-> NoRequest]
    /\ plan = [r \in Requests |-> NoPlan]
    /\ result = [r \in Requests |-> NoResult]
    /\ response = [r \in Requests |-> NoResponse]
    /\ trace = [r \in Requests |-> <<>>]
    /\ before = [r \in Requests |-> NoMemory]
    /\ served = 0
    /\ last_write = NoWrites
    /\ looked_up = {}
    /\ last_call = NoCall

\* the handler of r ends with resp, after making the calls in `calls`
Finish(r, resp, calls) ==
    /\ pc' = [pc EXCEPT ![r] = "done"]
    /\ response' = [response EXCEPT ![r] = resp]
    /\ trace' = [trace EXCEPT ![r] = @ \o calls]

\* agent_ask lines 229-240: read the payload, reject an empty query, look
\* the session up and hand the query to the planner
Receive(r, query, session_id, execute, fmt) ==
    /\ pc[r] = "idle"
    /\ served < MaxRequests
    /\ req' = [req EXCEPT ![r] =
            [query |-> Strip(query), session_id |-> session_id,
             execute |-> execute, fmt |-> fmt]]
    /\ before' = [before EXCEPT ![r] = SESSION_MEMORY]
    /\ UNCHANGED <<plan, result, served, last_write, last_call>>
    /\ IF Strip(query) = ""
       THEN /\ Finish(r, ErrorResponse(<<"Missing 'query' in body">>), <<>>)
            /\ UNCHANGED <<SESSION_MEMORY, looked_up>>
       ELSE /\ pc' = [pc EXCEPT ![r] = "prompting"]
            /\ response' = response
            /\ IF Truthy(session_id)
               THEN /\ SESSION_MEMORY' = get_session_context(SESSION_MEMORY, session_id.s)
                    /\ looked_up' = looked_up \cup {session_id.s}
                    /\ trace' = [trace EXCEPT ![r] =
                            <<"get_session_context", "asi_chat:plan">>]
               ELSE /\ UNCHANGED <<SESSION_MEMORY, looked_up>>
                    /\ trace' = [trace EXCEPT ![r] = <<"asi_chat:plan">>]

\* the two hints of tool_planner.py lines 25 and 27, up to the value
MarketHint == " The user's last-viewed market has conditionId '"
TraderHint == " The user's last-viewed trader has address '"

\* lines 23-27 with the mistake of testing the keys' presence, not their values
ContextInjectionIfPresent(session_context) ==
    (IF session_context.last_condition_id.t # "absent"
     THEN <<MarketHint, PyStr(session_context.last_condition_id), "'. ">>
     ELSE <<>>)
    \o (IF session_context.last_trader_address.t # "absent"
        THEN <<TraderHint, PyStr(session_context.last_trader_address), "'. ">>
        ELSE <<>>)

\* tool_planner.py lines 23-27: the text appended to the query, in parts
context_injection(session_context) ==
    (IF Truthy(Get(session_context.last_condition_id))
     THEN <<MarketHint, PyStr(session_context.last_condition_id), "'. ">>
     ELSE <<>>)
    \o (IF Truthy(Get(session_context.last_trader_address))
        THEN <<TraderHint, PyStr(session_context.last_trader_address), "'. ">>
        ELSE <<>>)

\* line 31: the content of the user message sent to the chat model
user_message(query, session_context) == <<query>> \o context_injection(session_context)

\* plan_with_tools lines 23-32, run in a worker thread after agent_ask line
\* 240 handed it `context`: the dictionary that get_session_context returned
\* is the stored one (memory.py line 11), so the thread reads the record as
\* it is when the thread runs; without a session id the context is {}
BuildPrompt(r) ==
    /\ pc[r] = "prompting"
    /\ pc' = [pc EXCEPT ![r] = "planning"]
    /\ LET session_id == req[r].session_id
           context == IF Truthy(session_id)
                      THEN SESSION_MEMORY[session_id.s]
                      ELSE EmptyContext
       IN  plan' = [plan EXCEPT ![r].user_message = user_message(req[r].query, context)]
    /\ UNCHANGED <<SESSION_MEMORY, req, result, response, trace, before, served,
                   last_write, lib>>

\* what the chat model's planning reply held, for the record in `trace`
ReplyEvent(reply) ==
    IF reply.kind = "tool_calls" /\ reply.calls = <<>> THEN "empty_tool_calls"
    ELSE reply.kind

\* line 246 with the mistake of taking the last tool call of the reply
last_tool_call(tool_calls) == tool_calls[Len(tool_calls)]

\* line 246: tool_call = tool_calls[0]
first_tool_call(tool_calls) == tool_calls[1]

\* plan_with_tools returns or raises, then agent_ask lines 242-337 up to the
\* await of the branch's upstream call
PlannerReturns(r, reply) ==
    /\ pc[r] = "planning"
    /\ UNCHANGED <<SESSION_MEMORY, req, before, served, last_write, lib>>
    /\ LET planned == plan_with_tools(reply)
           function_call == first_tool_call(planned.calls)
           tool_name == Get(function_call.name)
           parsed == json_loads_arguments(function_call.arguments)
           arguments == parsed.value
           branch == Dispatch(tool_name, arguments)
           planned_action ==
               [tool_name |-> tool_name, raw |-> function_call.arguments.shape,
                arguments |-> arguments, key |-> branch.key,
                \* for the record: the names of all tool calls of the reply
                reply_names |-> [i \in 1..Len(planned.calls) |-> planned.calls[i].name],
                user_message |-> plan[r].user_message]
           \* json.loads raised: tool_name is bound, arguments is not
           unparsed == [planned_action EXCEPT !.arguments = DictValue(NoArgs),
                                              !.key = Absent]
           replied == <<ReplyEvent(reply)>>
       IN  IF planned.exc # ""
           THEN Finish(r, Raised(planned.exc), replied) /\ UNCHANGED <<plan, result>>
           ELSE IF planned.isnone \/ planned.calls = <<>>
           THEN /\ Finish(r, ErrorResponse(<<"No tool call planned by the AI.">>), replied)
                /\ UNCHANGED <<plan, result>>
           ELSE IF parsed.exc = "JSONDecodeError"
           THEN /\ Finish(r, ErrorResponse(<<"Failed to parse tool arguments from AI.">>),
                          replied)
                /\ plan' = [plan EXCEPT ![r] = unparsed]
                /\ result' = result
           ELSE IF parsed.exc # ""
           THEN /\ Finish(r, Raised(parsed.exc), replied)
                /\ plan' = [plan EXCEPT ![r] = unparsed]
                /\ result' = result
           ELSE /\ plan' = [plan EXCEPT ![r] = planned_action]
                /\ IF ~req[r].execute
                   THEN /\ Finish(r, PlanResponse(tool_name, arguments), replied)
                        /\ result' = result
                   ELSE CASE branch.kind = "raise" ->
                                Finish(r, Raised(branch.exc), replied) /\ result' = result
                          [] branch.kind = "missing" ->
                                /\ Finish(r, ErrorResponse(
                                        <<branch.field, " is required for ",
                                          PyStr(tool_name), ".">>),
                                          replied \o <<"validate">>)
                                /\ result' = result
                          [] branch.kind = "call" ->
                                /\ pc' = [pc EXCEPT ![r] = "upstream"]
                                /\ trace' = [trace EXCEPT ![r] =
                                        @ \o replied
                                          \o (IF branch.field # "" THEN <<"validate">>
                                              ELSE <<>>)
                                          \o <<branch.fn>>]
                                /\ UNCHANGED <<response, result>>
                          [] branch.kind = "unsupported" ->
                                /\ result' = [result EXCEPT ![r] =
                                        [NoResult EXCEPT !.kind = "unsupported"]]
                                /\ Finish(r, ResultResponse(req[r].fmt, ApologyText,
                                        [NoResult EXCEPT !.kind = "unsupported"]), replied)
                          [] branch.kind = "unknown" ->
                                /\ Finish(r, ErrorResponse(
                                        <<"Unknown tool: ", PyStr(tool_name)>>), replied)
                                /\ result' = result

\* the session write-back of a branch after its upstream function returned
\* res: whether update_session_context is called, and with which updates
NoWrite == [write |-> FALSE, updates |-> EmptyContext]
Write(updates) == [write |-> TRUE, updates |-> updates]

MarketsWriteBackIfId(session_id, res) ==
    IF Truthy(session_id) /\ res.markets # <<>> /\ res.markets[1].conditionId # ""
    THEN Write(Updates(Str(res.markets[1].conditionId), Absent, MarketList(res.markets)))
    ELSE NoWrite

\* lines 267-268
MarketsWriteBack(session_id, res) ==
    IF Truthy(session_id) /\ res.markets # <<>>
    THEN Write(Updates(Str(res.markets[1].conditionId), Absent, MarketList(res.markets)))
    ELSE NoWrite

WriteBackAlways(fn, session_id, key, res) ==
    IF Truthy(session_id) THEN Write(Updates(key, Absent, NoMarkets)) ELSE NoWrite

\* the write-backs with the mistake of not testing session_id
WriteBackWithoutId(fn, session_id, key, res) ==
    CASE fn \in {"get_trades_by_condition", "get_top_holders"} ->
            Write(Updates(key, Absent, NoMarkets))
      [] fn \in {"get_closed_positions_for_user", "summarize_trader_details"} ->
            Write(Updates(Absent, key, NoMarkets))
      [] OTHER -> NoWrite

\* lines 267-268, 277-278, 292-294, 303-304, 316-317 and 325-326
WriteBack(fn, session_id, key, res) ==
    CASE fn = "get_markets_normalized" -> MarketsWriteBack(session_id, res)
      [] fn \in {"get_trades_by_condition", "get_top_holders"} ->
            IF Truthy(session_id) THEN Write(Updates(key, Absent, NoMarkets)) ELSE NoWrite
      [] fn = "get_order_book" ->
            IF res.book.error.t = "absent" /\ Truthy(session_id)
               /\ Truthy(Get(res.book.condition_id))
            THEN Write(Updates(Get(res.book.condition_id), Absent, NoMarkets))
            ELSE NoWrite
      [] fn \in {"get_closed_positions_for_user", "summarize_trader_details"} ->
            IF Truthy(session_id) THEN Write(Updates(Absent, key, NoMarkets)) ELSE NoWrite
      [] OTHER -> NoWrite

\* the trace of a write-back followed by the formatter
AfterCallFormatsFirst(wb, formatter) ==
    <<formatter>> \o (IF wb.write THEN <<"update_session_context">> ELSE <<>>)

AfterCall(wb, formatter) ==
    (IF wb.write THEN <<"update_session_context">> ELSE <<>>) \o <<formatter>>

\* lines 288-291: `result` is result_data when it holds "error", else its
\* order_books
ResultOf(res) ==
    IF res.kind = "order_book" /\ res.book.error.t = "absent"
    THEN [res EXCEPT !.book = BookData(Absent, res.book.order_books, Absent)]
    ELSE res

\* the branch's upstream function returned res: write back, format, respond
Complete(r, fn, res, formatted, formatter) ==
    LET wb == WriteBack(fn, req[r].session_id, plan[r].key, res)
    IN  /\ result' = [result EXCEPT ![r] = ResultOf(res)]
        /\ SESSION_MEMORY' =
                IF wb.write
                THEN update_session_context(SESSION_MEMORY, req[r].session_id.s, wb.updates)
                ELSE SESSION_MEMORY
        /\ last_write' =
                IF wb.write
                THEN Logged(last_write, r, req[r].session_id.s, wb.updates)
                ELSE last_write
        /\ Finish(r, IF formatted.exc # "" THEN Raised(formatted.exc)
                     ELSE ResultResponse(req[r].fmt, formatted.text, ResultOf(res)),
                  AfterCall(wb, formatter))
        /\ UNCHANGED <<req, plan, before, served, lib>>

\* the function the handler of r is awaiting
Awaiting(r, fn) == pc[r] = "upstream" /\ trace[r][Len(trace[r])] = fn

\* the branch's upstream function raised (its _request_json ended with
\* status): agent_ask does not catch it
UpstreamFails(r, fn, status) ==
    /\ Awaiting(r, fn)
    /\ status # "ok"
    /\ Finish(r, Raised(_request_json(status)), <<status>>)
    /\ UNCHANGED <<SESSION_MEMORY, req, plan, result, before, served, last_write, lib>>

\* lines 266-269
MarketsReturn(r, raw) ==
    /\ Awaiting(r, "get_markets_normalized")
    /\ LET res == [NoResult EXCEPT !.kind = "markets",
                                   !.markets = get_markets_normalized(raw)]
       IN  Complete(r, "get_markets_normalized", res,
                    _format_markets_text(res.markets), "_format_markets_text")

\* lines 276-279
TradesReturn(r, raw) ==
    /\ Awaiting(r, "get_trades_by_condition")
    /\ LET res == [NoResult EXCEPT !.kind = "trades", !.rows = raw]
       IN  Complete(r, "get_trades_by_condition", res,
                    _format_trades_text(raw), "_format_trades_text")

\* lines 286-296
OrderBookReturn(r, result_data) ==
    /\ Awaiting(r, "get_order_book")
    /\ LET res == [NoResult EXCEPT !.kind = "order_book", !.book = result_data]
       IN  Complete(r, "get_order_book", res,
                    _format_order_book_text(result_data), "_format_order_book_text")

\* lines 302-305
HoldersReturn(r, raw) ==
    /\ Awaiting(r, "get_top_holders")
    /\ LET res == [NoResult EXCEPT !.kind = "holders", !.holders = get_top_holders(raw)]
       IN  Complete(r, "get_top_holders", res,
                    _format_top_holders_text(res.holders), "_format_top_holders_text")

\* lines 308-309
TradersReturn(r, raw) ==
    /\ Awaiting(r, "get_top_traders_by_pnl")
    /\ LET res == [NoResult EXCEPT !.kind = "traders",
                                   !.traders = get_top_traders_by_pnl(raw)]
       IN  Complete(r, "get_top_traders_by_pnl", res,
                    _format_top_traders_text(res.traders), "_format_top_traders_text")

\* lines 315-318
ClosedReturn(r, raw) ==
    /\ Awaiting(r, "get_closed_positions_for_user")
    /\ LET res == [NoResult EXCEPT !.kind = "closed", !.rows = raw]
       IN  Complete(r, "get_closed_positions_for_user", res,
                    _format_closed_positions_text(raw), "_format_closed_positions_text")

\* lines 324-330 up to the await of the secondary asi_chat:
\* summarize_trader_details returned the three bodies
DetailsReturn(r, positions, trades) ==
    /\ Awaiting(r, "summarize_trader_details")
    /\ LET details == TraderDetails(plan[r].key, positions, trades)
           res == [NoResult EXCEPT !.kind = "trader", !.details = details]
           formatted == _format_trader_details_text(details)
           wb == WriteBack("summarize_trader_details", req[r].session_id, plan[r].key, res)
           prompt_exc == SummaryPromptRaises(details)
       IN  IF formatted.exc # "" \/ prompt_exc # ""
           THEN Complete(r, "summarize_trader_details", res,
                         IF formatted.exc # "" THEN formatted ELSE FormatRaises(prompt_exc),
                         "_format_trader_details_text")
           ELSE /\ result' = [result EXCEPT ![r] = res]
                /\ SESSION_MEMORY' =
                        IF wb.write
                        THEN update_session_context(SESSION_MEMORY,
                                                    req[r].session_id.s, wb.updates)
                        ELSE SESSION_MEMORY
                /\ last_write' =
                        IF wb.write
                        THEN Logged(last_write, r, req[r].session_id.s, wb.updates)
                        ELSE last_write
                /\ pc' = [pc EXCEPT ![r] = "summary"]
                /\ response' = [response EXCEPT ![r] = Pending(formatted.text)]
                /\ trace' = [trace EXCEPT ![r] =
                        @ \o AfterCall(wb, "_format_trader_details_text")
                          \o <<"asi_chat:summary">>]
                /\ UNCHANGED <<req, plan, before, served, lib>>

\* the secondary asi_chat returned or raised; lines 216-220 and 330-347
SummaryReturns(r, reply) ==
    /\ pc[r] = "summary"
    /\ LET ai_summary == _summarize_trader_with_ai(reply)
           formatted_result ==
               response[r].text
               \o <<Lit(Str("AI Summary:")), Lit(Str(PyStr(ai_summary)))>>
       IN  Finish(r, ResultResponse(req[r].fmt, formatted_result, result[r]), <<>>)
    /\ UNCHANGED <<SESSION_MEMORY, req, plan, result, before, served, last_write, lib>>

\* the response (or the exception) leaves the handler; its locals are gone
Deliver(r) ==
    /\ pc[r] = "done"
    /\ pc' = [pc EXCEPT ![r] = "idle"]
    /\ req' = [req EXCEPT ![r] = NoRequest]
    /\ plan' = [plan EXCEPT ![r] = NoPlan]
    /\ result' = [result EXCEPT ![r] = NoResult]
    /\ response' = [response EXCEPT ![r] = NoResponse]
    /\ trace' = [trace EXCEPT ![r] = <<>>]
    /\ before' = [before EXCEPT ![r] = NoMemory]
    /\ served' = served + 1
    /\ UNCHANGED <<SESSION_MEMORY, last_write, lib>>

(***************************************************************************)
(* The inputs of the model: what clients send, what the chat model         *)
(* replies, what the upstream APIs return.                                 *)
(***************************************************************************)
BoundedSeq(S, n) == UNION {[1..k -> S] : k \in 0..n}

Queries == {"", "  ", "top markets"}
SessionIdInputs == {Null, Str("")} \cup {Str(sid) : sid \in SessionIds}
Formats == {"text", "json"}

ArgObjects ==
    {NoArgs, ArgObject(Absent, Absent, Absent, Num(3))}
    \cup {ArgObject(c, Absent, Absent, Absent) : c \in {Null, Str(""), Str("c1"), Str("c2")}}
    \cup {ArgObject(Absent, m, Absent, Absent) : m \in {Str(""), Str("m1")}}
    \cup {ArgObject(Absent, Absent, a, Absent) : a \in {Str(""), Str("a1"), Str("a2")}}

\* the parameters tool_definitions.py declares for a tool
Declared(name) ==
    CASE name = Str("get_markets") -> {"limit"}
      [] name = Str("get_trades_for_condition") -> {"condition_id", "limit"}
      [] name = Str("get_trader_details") -> {"address"}
      [] name = Str("get_order_book") -> {"market_id"}
      [] name = Str("get_top_holders") -> {"condition_id"}
      [] name = Str("get_closed_positions_for_user") -> {"address"}
      [] OTHER -> {}

KeysOf(obj) == {k \in DOMAIN obj : obj[k].t # "absent"}

NameInputs ==
    {Str(ALL_TOOLS[i]) : i \in 1..Len(ALL_TOOLS)}
    \cup {Str("unsupported"), Str("place_order"), Null, Absent}

\* the tool calls the chat model makes: any name, with arguments that are
\* missing, null, not JSON, not an object, or an object of declared parameters
ToolCallInputs ==
    {ToolCall(name, ArgText(shape, NoArgs)) :
        name \in NameInputs, shape \in {"missing", "none", "malformed", "json_list"}}
    \cup UNION {{ToolCall(name, ArgText("json_object", obj)) :
                    obj \in {o \in ArgObjects : KeysOf(o) \subseteq Declared(name)}} :
                name \in NameInputs}
    \cup {ToolCall(Str("place_order"), ArgText("json_object",
            ArgObject(Str("c1"), Absent, Absent, Absent)))}

SecondCall == ToolCall(Str("get_top_holders"),
                       ArgText("json_object", ArgObject(Str("c2"), Absent, Absent, Absent)))

ModelReplies ==
    {ModelReply(kind, <<>>) :
        kind \in {"transport_error", "no_choices", "empty_choices", "no_message",
                  "null_message", "no_tool_calls", "null_tool_calls", "tool_calls"}}
    \cup {ModelReply("tool_calls", <<call>>) : call \in ToolCallInputs}
    \cup {ModelReply("tool_calls", <<call, SecondCall>>) :
            call \in {ToolCall(Str("get_trader_details"), ArgText("json_object",
                          ArgObject(Absent, Absent, Str("a1"), Absent))),
                      ToolCall(Str("unsupported"), ArgText("json_object", NoArgs))}}

SummaryReplies ==
    {SummaryReply(kind, "") :
        kind \in {"transport_error", "no_choices", "empty_choices", "no_message",
                  "null_message", "no_content", "null_content"}}
    \cup {SummaryReply("content", "A profitable trader.")}

RawMarkets ==
    {NotAnObject,
     RawMarket(Str("m1"), Str("Will it rain?"), Str("c1"), Str("7"), Bool(TRUE)),
     RawMarket(Num(2), Absent, Null, Absent, Absent)}

MarketBodies ==
    {ListBody(xs) : xs \in BoundedSeq(RawMarkets, MaxMarkets)}
    \cup {ObjectBody(data, markets) :
            data \in {NoField, ListField(<<>>)},
            markets \in {NoField, ListField(<<RawMarket(Absent, Absent, Str("c2"), Num(0), Null)>>)}}
    \cup {ObjectBody(ObjectField(RawMarket(Str("m1"), Absent, Str("c1"), Absent, Absent)), NoField)}

RowsBodies == {Rows("list", 0), Rows("list", 1), Rows("dict", 0), Rows("dict", 1)}

BookBodies ==
    {BookData(Str("No orderbook exists"), Absent, Absent),
     BookData(Absent, Str("books"), Str("c1")),
     BookData(Absent, Str("books"), Absent),
     BookData(Absent, Absent, Absent)}

HoldersBodies ==
    {HoldersBody("dict", <<>>),
     HoldersBody("list", <<>>),
     HoldersBody("list",
        <<TokenData(TRUE, <<Holder(Num(1), Str("a1"), Str("ann"), Num(3)),
                            Holder(Num(0), Str("a2"), Absent, Num(5)),
                            Holder(Num(1), Str("a2"), Absent, Num(4))>>),
          TokenData(FALSE, <<>>)>>)}

PositionsBodies ==
    {PositionsBody("dict", <<>>),
     PositionsBody("list", <<>>),
     PositionsBody("list",
        <<Position(Str("a1"), Num(2), Str("Will it rain?"), Str("ann")),
          Position(Str("a2"), Num(5), Null, Absent),
          Position(Str("a1"), Num(4), Str("Will it snow?"), Absent)>>)}

(***************************************************************************)
(* The specification: requests are served one at a time (request r1).      *)
(***************************************************************************)
Serving == {"r1"}

Next ==
    \E r \in Serving :
        \/ \E q \in Queries, sid \in SessionIdInputs, e \in BOOLEAN, f \in Formats :
                Receive(r, q, sid, e, f)
        \/ BuildPrompt(r)
        \/ \E reply \in ModelReplies : PlannerReturns(r, reply)
        \/ \E fn \in UpstreamFunctions, status \in HttpStatuses : UpstreamFails(r, fn, status)
        \/ \E raw \in MarketBodies : MarketsReturn(r, raw)
        \/ \E raw \in RowsBodies : TradesReturn(r, raw)
        \/ \E data \in BookBodies : OrderBookReturn(r, data)
        \/ \E raw \in HoldersBodies : HoldersReturn(r, raw)
        \/ \E raw \in PositionsBodies : TradersReturn(r, raw)
        \/ \E raw \in RowsBodies : ClosedReturn(r, raw)
        \/ \E positions \in RowsBodies, trades \in RowsBodies :
                DetailsReturn(r, positions, trades)
        \/ \E reply \in SummaryReplies : SummaryReturns(r, reply)
        \/ Deliver(r)

Spec == Init /\ [][Next]_vars

(***************************************************************************)
(* Concurrent requests: two handlers, each serving one request of session  *)
(* s1, interleaved at their awaits.  Between two awaits a handler runs on  *)
(* the event loop without interruption; plan_with_tools and the upstream   *)
(* client functions run in the thread pool and do not write the store.     *)
(***************************************************************************)
ConcToolCalls ==
    {ToolCall(Str("get_markets"), ArgText("json_object", NoArgs)),
     ToolCall(Str("get_top_traders_by_pnl"), ArgText("json_object", NoArgs)),
     ToolCall(Str("get_order_book"),
              ArgText("json_object", ArgObject(Absent, Str("m1"), Absent, Absent)))}
    \cup {ToolCall(Str(name), ArgText("json_object", ArgObject(Str(c), Absent, Absent, Absent))) :
            name \in {"get_trades_for_condition", "get_top_holders"}, c \in {"c1", "c2"}}
    \cup {ToolCall(Str(name), ArgText("json_object", ArgObject(Absent, Absent, Str(a), Absent))) :
            name \in {"get_trader_details", "get_closed_positions_for_user"},
            a \in {"a1", "a2"}}

ConcNext ==
    \E r \in Requests :
        \/ Receive(r, "top markets", Str("s1"), TRUE, "text")
        \/ BuildPrompt(r)
        \/ \E tool_call \in ConcToolCalls :
                PlannerReturns(r, ModelReply("tool_calls", <<tool_call>>))
        \/ \E fn \in UpstreamFunctions : UpstreamFails(r, fn, "http_error")
        \/ \E raw \in {ListBody(<<>>),
                        ListBody(<<RawMarket(Str("m1"), Absent, Str("c1"), Absent, Absent)>>)} :
                MarketsReturn(r, raw)
        \/ TradesReturn(r, Rows("list", 1))
        \/ \E cid \in {Absent, Str("c2")} :
                OrderBookReturn(r, BookData(Absent, Str("books"), cid))
        \/ HoldersReturn(r, HoldersBody("list", <<>>))
        \/ TradersReturn(r, PositionsBody("list", <<>>))
        \/ ClosedReturn(r, Rows("list", 0))
        \/ DetailsReturn(r, Rows("list", 1), Rows("list", 0))
        \/ SummaryReturns(r, SummaryReply("content", "A profitable trader."))

ConcSpec == Init /\ [][ConcNext]_vars

(***************************************************************************)
(* The client functions called directly, once, on an upstream body.        *)
(***************************************************************************)
MaxHolders == 6       \* holders of outcome 0 or 1 in an upstream /holders body
MaxPositions == 4     \* positions of traders a1, a2 in an upstream /positions body
MaxOrders == 6        \* orders on one side of an order book
MaxClock == 3         \* readings of the clock (minutes)

LibraryCall(fn, arg, out) == [fn |-> fn, arg |-> arg, out |-> out]

\* outcomeIndex and amount of the holders of the model
HolderKinds ==
    {<<Num(1), Num(1)>>, <<Num(1), Num(2)>>, <<Num(0), Absent>>, <<Num(0), Num(1)>>}

\* the holders of the given kinds, the i-th with wallet "i", as the body's
\* tokens: the first two holders in one token, the others in a later one,
\* after a holder of outcome 2 whose amount is the largest
HolderTokens(kinds) ==
    LET hs == [i \in 1..Len(kinds) |->
                Holder(kinds[i][1], Str(Digits[i + 1]), Absent, kinds[i][2])]
    IN  <<TokenData(TRUE, Take(hs, 2)), TokenData(FALSE, <<>>),
          TokenData(TRUE, <<Holder(Num(2), Str("0"), Absent, Num(3))>>
                          \o SubSeq(hs, 3, Len(hs)))>>

HoldersInputs ==
    {HoldersBody("dict", <<>>)}
    \cup {HoldersBody("list", HolderTokens(kinds)) :
            kinds \in BoundedSeq(HolderKinds, MaxHolders)}

\* a call of fn on arg, which returns out
Apply(fn, arg, out) ==
    /\ last_call' = LibraryCall(fn, arg, out)
    /\ UNCHANGED <<SESSION_MEMORY, handlers, looked_up>>

FetchTopHolders ==
    last_call = NoCall
    /\ \E arg \in HoldersInputs : Apply("get_top_holders", arg, get_top_holders(arg))

\* proxyWallet and cashPnl of the positions of the model
PositionKinds ==
    {<<a, pnl>> : a \in {Str("a1"), Str("a2"), Absent}, pnl \in {Num(0 - 1), Num(2), Absent}}

\* the positions of the given kinds, the i-th with title "i", around those of
\* four other traders
PositionsOf(kinds) ==
    LET ps == [i \in 1..Len(kinds) |->
                Position(kinds[i][1], kinds[i][2], Str(Digits[i + 1]), Absent)]
    IN  Take(ps, 2)
        \o <<Position(Str("a3"), Num(2), Str("x3"), Absent),
              Position(Str("a4"), Num(0 - 1), Absent, Absent),
              Position(Str("a5"), Num(2), Str("x5"), Str("eve")),
              Position(Str("a6"), Absent, Str("x6"), Absent)>>
        \o SubSeq(ps, 3, Len(ps))

PositionsInputs ==
    {PositionsBody("dict", <<>>)}
    \cup {PositionsBody("list", PositionsOf(kinds)) :
            kinds \in BoundedSeq(PositionKinds, MaxPositions)}

\* the call's out is here the summary list before the sort, and the list returned
top_traders(positions) ==
    [summary |-> trader_summary(positions), top |-> get_top_traders_by_pnl(positions)]

FetchTopTraders ==
    last_call = NoCall
    /\ \E arg \in PositionsInputs : Apply("get_top_traders_by_pnl", arg, top_traders(arg))

\* upstream market objects with missing, null and wrongly typed values
MarketObjects ==
    {[RawMarket(id, question, Null, liquidity, active) EXCEPT
            !.title = title, !.liquidityNum = liquidityNum] :
        id \in {Absent, Null, Str("m1"), Num(2), Bool(TRUE)},
        question \in {Absent, Str(""), Str("Will it rain?"), Num(0)},
        title \in {Absent, Str("Rain")},
        liquidityNum \in {Absent, Num(0), Num(4)},
        liquidity \in {Absent, Null, Num(3), Str("7"), Str("many"), Bool(TRUE)},
        active \in {Absent, Null, Bool(TRUE), Bool(FALSE), Str("false")}}

NormalizeMarket ==
    last_call = NoCall
    /\ \E arg \in MarketObjects : Apply("_normalize_market", arg, _normalize_market(arg))

\* upstream /markets bodies of every shape
MarketsInputs ==
    MarketBodies
    \cup {ScalarBody, BareObject(RawMarket(Str("m1"), Absent, Str("c1"), Num(3), Absent))}
    \cup {ObjectBody(NoField, ObjectField(RawMarket(Str("m2"), Absent, Absent, Absent, Absent)))}

FetchMarkets ==
    last_call = NoCall
    /\ \E arg \in MarketsInputs : Apply("get_markets_normalized", arg, get_markets_normalized(arg))

\* the ways the three GETs of a trader's summary can end
FetchedInputs ==
    {Fetched(status, IF status = "ok" THEN Rows("list", 1) ELSE Rows("list", 0)) :
        status \in HttpStatuses}

SummarizeTrader ==
    last_call = NoCall
    /\ \E positions \in FetchedInputs, trades \in FetchedInputs, closed \in FetchedInputs :
            Apply("summarize_trader_details",
                  [address |-> Str("a1"), positions |-> positions, trades |-> trades,
                   closed_positions |-> closed],
                  summarize_trader_details(Str("a1"), positions, trades, closed))

\* price and size of the orders of the model: two orders can have the same
\* price and different sizes
OrderKinds ==
    {Order(Num(1), Num(1)), Order(Num(2), Num(1)), Order(Num(2), Num(2)),
     Order(Absent, Absent)}

Reversed(xs) == [i \in 1..Len(xs) |-> xs[Len(xs) + 1 - i]]

\* order books whose two outcomes hold the same orders, the outcome "no" in
\* the reverse order, and books with an outcome in error
BookInputs ==
    {[yes |-> OutcomeBook(Absent, orders, orders),
      no |-> OutcomeBook(Absent, Reversed(orders), Reversed(orders))] :
        orders \in BoundedSeq(OrderKinds, MaxOrders)}
    \cup {[yes |-> OutcomeBook(Str("No orderbook exists"), <<>>, <<>>),
           no |-> OutcomeBook(Absent, <<Order(Num(1), Num(1))>>, <<>>)]}

FormatOrderBook ==
    last_call = NoCall
    /\ \E order_book \in BookInputs :
            Apply("_format_order_book_text", order_book, order_book_lines(order_book))

\* trade lists with and without timestamps
TradeLists ==
    BoundedSeq({Trade(Absent), Trade(Null), Trade(Num(0)), Trade(Num(1))}, 3)

\* a formatter of trades applied to the same list at the minute `now` and
\* again at the minute `later`: _format_trades_text shows 10 trades,
\* _format_trader_details_text 5
FormatTradesTwice ==
    last_call = NoCall
    /\ \E trades \in TradeLists, now \in 0..MaxClock, later \in 0..MaxClock,
          fn \in {<<"_format_trades_text", 10>>, <<"_format_trader_details_text", 5>>} :
            /\ now <= later
            /\ Apply(fn[1], trades,
                     [first |-> trade_stamps(trades, fn[2], now),
                      second |-> trade_stamps(trades, fn[2], later)])

\* session contexts handed to plan_with_tools: {} and records whose two
\* keys are missing, None, empty or set
ContextInputs ==
    {Updates(cid, addr, NoMarkets) :
        cid \in {Absent, Null, Str(""), Str("c1")},
        addr \in {Absent, Null, Str(""), Str("a1")}}

PlanWithTools ==
    last_call = NoCall
    /\ \E query \in {"top markets", "who holds it"}, session_context \in ContextInputs :
            Apply("plan_with_tools",
                  [query |-> query, session_context |-> session_context],
                  [user_message |-> user_message(query, session_context),
                   session_context |-> session_context])

LibNext ==
    \/ PlanWithTools
    \/ SummarizeTrader
    \/ FormatTradesTwice
    \/ FormatOrderBook
    \/ FetchTopHolders
    \/ FetchTopTraders
    \/ NormalizeMarket
    \/ FetchMarkets

LibSpec == Init /\ [][LibNext]_vars

(***************************************************************************)
(* memory.py called directly: any sequence of get_session_context,         *)
(* update_session_context and clear_session_context.                       *)
(***************************************************************************)
\* a call of a memory.py function: pre is the store before the call, out the
\* record returned (get_session_context only)
MemoryCall(fn, sid, updates, pre, out) ==
    [fn |-> fn, sid |-> sid, updates |-> updates, pre |-> pre, out |-> out]

MemGet(sid) ==
    /\ SESSION_MEMORY' = get_session_context(SESSION_MEMORY, sid)
    /\ looked_up' = looked_up \cup {sid}
    /\ last_call' = MemoryCall("get_session_context", sid, EmptyContext,
                               SESSION_MEMORY, SESSION_MEMORY'[sid])
    /\ UNCHANGED handlers

MemUpdate(sid, updates) ==
    /\ SESSION_MEMORY' = update_session_context(SESSION_MEMORY, sid, updates)
    /\ last_call' = MemoryCall("update_session_context", sid, updates,
                               SESSION_MEMORY, EmptyContext)
    /\ UNCHANGED <<handlers, looked_up>>

MemClear(sid) ==
    /\ SESSION_MEMORY' = clear_session_context(SESSION_MEMORY, sid)
    /\ looked_up' = looked_up \ {sid}
    /\ last_call' = MemoryCall("clear_session_context", sid, EmptyContext,
                               SESSION_MEMORY, EmptyContext)
    /\ UNCHANGED handlers

\* the updates dicts: each key absent or present, None being a value
UpdatesInputs ==
    {Updates(cid, addr, markets) :
        cid \in {Absent, Null, Str("c1"), Str("c2")},
        addr \in {Absent, Str("a1")},
        markets \in {NoMarkets, MarketList(<<>>),
                     MarketList(<<_normalize_market(
                        RawMarket(Str("m1"), Absent, Str("c1"), Absent, Absent))>>)}}

MemNext ==
    \E sid \in SessionIds :
        \/ MemGet(sid)
        \/ \E updates \in UpdatesInputs : MemUpdate(sid, updates)
        \/ MemClear(sid)

MemSpec == Init /\ [][MemNext]_vars

(***************************************************************************)
(* Vocabulary of the properties.                                           *)
(***************************************************************************)
\* the handler of r has ended, with response[r]
Done(r) == pc[r] = "done"

\* the handler of r made the call (or received the reply) named e
Called(r, e) == \E i \in 1..Len(trace[r]) : trace[r][i] = e

CalledUpstream(r) == \E fn \in UpstreamFunctions : Called(r, fn)

\* the context a session id reads as: a record the store lacks reads as {}
RecordOf(mem, sid) == IF sid \in DOMAIN mem THEN mem[sid] ELSE EmptyContext

FieldsOf(mem) == [sid \in SessionIds |-> RecordOf(mem, sid)]

\* since the handler of r was entered no field of any record has changed
\* and update_session_context was not called
NoFieldWritten(r) ==
    /\ FieldsOf(SESSION_MEMORY) = FieldsOf(before[r])
    /\ ~Called(r, "update_session_context")

\* the handler of r got a tool call whose arguments json.loads accepted
HasPlan(r) == plan[r].raw \in {"missing", "json_list", "json_object"}

\* ... and they are a JSON object (a missing value reads as "{}")
HasMapping(r) == plan[r].raw \in {"missing", "json_object"}

\* the record of r's session now, and when the handler was entered
Stored(r) == RecordOf(SESSION_MEMORY, req[r].session_id.s)
Earlier(r) == RecordOf(before[r], req[r].session_id.s)

\* the records of the sessions other than r's are as they were
OthersKept(r) ==
    \A sid \in SessionIds \ {req[r].session_id.s} :
        RecordOf(SESSION_MEMORY, sid) = RecordOf(before[r], sid)

\* r has a session id and its upstream function returned a result of `kinds`
Returned(r, kinds) ==
    /\ pc[r] \in {"summary", "done"}
    /\ result[r].kind \in kinds
    /\ Truthy(req[r].session_id)

\* the name a tool_name prints as in an f-string
NameText(tool_name) == IF tool_name.t = "str" THEN tool_name.s ELSE "None"

(***************************************************************************)
(* Required arguments.                                                     *)
(***************************************************************************)
RequiredArgument ==
    [get_trades_for_condition |-> "condition_id",
     get_top_holders |-> "condition_id",
     get_order_book |-> "market_id",
     get_trader_details |-> "address",
     get_closed_positions_for_user |-> "address"]

\* the plan of r names `tool` and its arguments hold no non-empty value for
\* the tool's required argument
LacksRequired(r, tool) ==
    /\ HasMapping(r)
    /\ plan[r].tool_name = Str(tool)
    /\ ~Truthy(Get(plan[r].arguments.obj[RequiredArgument[tool]]))

RejectedAsMissing(r, tool) ==
    /\ response[r] = ErrorResponse(<<RequiredArgument[tool], " is required for ", tool, ".">>)
    /\ ~CalledUpstream(r)
    /\ NoFieldWritten(r)

\* C1 as stated: whenever the planned arguments hold no non-empty value for
\* the tool's required argument, the request ends with the "<field> is
\* required for <tool>." error, calls no upstream function and writes no
\* field of any session record.
C1_AsStated ==
    \A r \in Requests : \A tool \in DOMAIN RequiredArgument :
        Done(r) /\ LacksRequired(r, tool) => RejectedAsMissing(r, tool)

\* C1 amended: the same for a request with execute=true.  (With
\* execute=false the plan is returned before the arguments are validated.)
C1_MissingArgumentRejected ==
    \A r \in Requests : \A tool \in DOMAIN RequiredArgument :
        Done(r) /\ req[r].execute /\ LacksRequired(r, tool) => RejectedAsMissing(r, tool)

\* an executed get_order_book whose market_id is "" ended, in a session
C1_Witness ==
    \E r \in Requests :
        /\ Done(r) /\ req[r].execute /\ LacksRequired(r, "get_order_book")
        /\ plan[r].arguments.obj.market_id = Str("")
        /\ Truthy(req[r].session_id)
        /\ response[r].kind = "error"

(***************************************************************************)
(* Session write-back.                                                     *)
(***************************************************************************)
\* C2: after get_trades_for_condition or get_top_holders returned for a
\* request with a session id, the session's record is the earlier record
\* with last_condition_id set to the planned condition_id; after
\* get_closed_positions_for_user or get_trader_details it is the earlier
\* record with last_trader_address set to the planned address; so the
\* record is unchanged when it already held that value, and no other
\* session's record changes.
C2_KeyStored ==
    \A r \in Requests :
        /\ Returned(r, {"trades", "holders"}) =>
                /\ plan[r].key = plan[r].arguments.obj.condition_id
                /\ Stored(r) = [Earlier(r) EXCEPT !.last_condition_id = plan[r].key]
                /\ (Earlier(r).last_condition_id = plan[r].key => Stored(r) = Earlier(r))
                /\ OthersKept(r)
        /\ Returned(r, {"closed", "trader"}) =>
                /\ plan[r].key = plan[r].arguments.obj.address
                /\ Stored(r) = [Earlier(r) EXCEPT !.last_trader_address = plan[r].key]
                /\ (Earlier(r).last_trader_address = plan[r].key => Stored(r) = Earlier(r))
                /\ OthersKept(r)

\* a follow-up: the trades of the condition the session already holds, in a
\* session that also holds a markets list
C2_Witness ==
    \E r \in Requests :
        /\ Done(r) /\ Returned(r, {"trades"})
        /\ Earlier(r).last_condition_id = plan[r].key
        /\ Earlier(r).last_markets.present
        /\ Stored(r) = Earlier(r)

\* C3: after get_markets returned for a request with a session id, a
\* non-empty list is stored whole as last_markets and its first element's
\* conditionId (the empty string too) as last_condition_id; after an empty
\* list the record is as it was.
C3_MarketsStored ==
    \A r \in Requests :
        Returned(r, {"markets"}) =>
            IF result[r].markets # <<>>
            THEN /\ Stored(r).last_markets = MarketList(result[r].markets)
                 /\ Stored(r).last_condition_id = Str(result[r].markets[1].conditionId)
            ELSE Stored(r) = Earlier(r) /\ NoFieldWritten(r)

\* two markets were returned, the first with conditionId ""
C3_Witness ==
    \E r \in Requests :
        /\ Done(r) /\ Returned(r, {"markets"})
        /\ Len(result[r].markets) = 2
        /\ result[r].markets[1].conditionId = ""
        /\ Stored(r).last_condition_id = Str("")
        /\ Earlier(r) # Stored(r)

(***************************************************************************)
(* Replies without a tool call, unparsable arguments, unknown tools.       *)
(***************************************************************************)
\* the one part of the apology text
Apology == <<Lit(Str("Sorry, I can't answer that question."))>>

\* the request ended with the apology as its result
Apologized(r) ==
    /\ response[r].kind = "result"
    /\ req[r].fmt = "text" => response[r].text = Apology

\* the planning reply of r carried no tool call: no message, a message
\* without tool_calls, tool_calls null, or tool_calls []
NoToolCall(r) ==
    \E e \in {"no_message", "no_tool_calls", "null_tool_calls", "empty_tool_calls"} :
        Called(r, e)

\* C4: whenever the planning reply carries no tool call, the plan is the
\* sentinel {unsupported, {}} and the request ends with the apology result
\* (with the plan when execute=false), never with an error or an exception.
C4_NoToolCallApologizes ==
    \A r \in Requests :
        Done(r) /\ NoToolCall(r) =>
            /\ response[r].kind \notin {"error", "exception"}
            /\ plan[r].tool_name = Str("unsupported")
            /\ plan[r].arguments = DictValue(NoArgs)
            /\ req[r].execute => Apologized(r)

\* C5: whenever the selected tool call's arguments value is not the text
\* of a JSON object (it is malformed, missing, null, or a JSON list), the
\* request ends with the "Failed to parse tool arguments from AI." error,
\* calls no upstream function and writes nothing to the session store.
C5_UnparsableRejected ==
    \A r \in Requests :
        Done(r) /\ plan[r].raw \in {"malformed", "missing", "none", "json_list"} =>
            /\ response[r] = ErrorResponse(<<"Failed to parse tool arguments from AI.">>)
            /\ ~CalledUpstream(r)
            /\ NoFieldWritten(r)

\* the planned name is not a catalog name and not the sentinel
UnknownName(tool_name) ==
    tool_name \notin {Str(n) : n \in ToolNames \cup {"unsupported"}}

\* C6: for a planned action (the arguments parsed) whose tool name is
\* neither a catalog name nor the sentinel, a missing or null name
\* included, a request with execute=true ends with the error
\* "Unknown tool: <name>", calls no upstream function and writes nothing
\* to the session store.
C6_UnknownToolRejected ==
    \A r \in Requests :
        Done(r) /\ req[r].execute /\ HasPlan(r) /\ UnknownName(plan[r].tool_name) =>
            /\ response[r] =
                    ErrorResponse(<<"Unknown tool: ", NameText(plan[r].tool_name)>>)
            /\ ~CalledUpstream(r)
            /\ NoFieldWritten(r)

\* a tool call without a name was executed in a session
C6_Witness ==
    \E r \in Requests :
        /\ Done(r) /\ req[r].execute /\ HasPlan(r)
        /\ plan[r].tool_name = Null
        /\ Truthy(req[r].session_id)
        /\ response[r].msg = <<"Unknown tool: ", "None">>

(***************************************************************************)
(* The sentinel, and execute=false.                                        *)
(***************************************************************************)
SentinelPlanned(r) == HasPlan(r) /\ plan[r].tool_name = Str("unsupported")

SentinelHandled(r) ==
    /\ Apologized(r)
    /\ ~CalledUpstream(r)
    /\ ~Called(r, "asi_chat:summary")
    /\ NoFieldWritten(r)

\* C7 as stated: whenever the planned tool is the sentinel, the request
\* ends with the apology as its result, without an upstream call or a
\* secondary model call, and no session record is written.
C7_AsStated ==
    \A r \in Requests : Done(r) /\ SentinelPlanned(r) => SentinelHandled(r)

\* C7 amended: the same for a request with execute=true.  (With
\* execute=false the sentinel is returned as the plan.)
C7_SentinelApologizes ==
    \A r \in Requests :
        Done(r) /\ req[r].execute /\ SentinelPlanned(r) => SentinelHandled(r)

\* the planner made the sentinel up for a reply without tool_calls, in a
\* session, and the text was asked for
C7_Witness ==
    \E r \in Requests :
        /\ Done(r) /\ req[r].execute /\ SentinelPlanned(r)
        /\ Called(r, "no_tool_calls")
        /\ Truthy(req[r].session_id)
        /\ req[r].fmt = "text"
        /\ response[r].text = Apology

\* C8: with execute=false, once planning gave a tool call and its
\* arguments parsed, the response is {plan: {action: tool_name, params:
\* arguments}} whatever the tool name and whatever the arguments hold; no
\* upstream function and no secondary model call is made and no field of
\* any session record is written.
C8_PlanOnly ==
    \A r \in Requests :
        Done(r) /\ ~req[r].execute /\ HasPlan(r) =>
            /\ response[r].kind = "plan"
            /\ response[r].action = plan[r].tool_name
            /\ response[r].params = plan[r].arguments
            /\ ~CalledUpstream(r)
            /\ ~Called(r, "asi_chat:summary")
            /\ NoFieldWritten(r)

\* a plan for get_top_holders with condition_id null was returned unexecuted
C8_Witness ==
    \E r \in Requests :
        /\ Done(r) /\ ~req[r].execute /\ LacksRequired(r, "get_top_holders")
        /\ plan[r].arguments.obj.condition_id = Null
        /\ Truthy(req[r].session_id)
        /\ response[r].kind = "plan"

(***************************************************************************)
(* Failures of the secondary summary and of the order-book call.           *)
(***************************************************************************)
\* C9: once summarize_trader_details returned and the trader text was
\* formatted, the request ends with {result: ...}, the text being the
\* trader text followed by the "AI Summary:" section, whatever goes wrong
\* in the summary step (positions or trades that are not lists included).
C9_SummaryFailureReplaced ==
    \A r \in Requests :
        /\ Done(r)
        /\ result[r].kind = "trader"
        /\ _format_trader_details_text(result[r].details).exc = ""
        => /\ response[r].kind = "result"
           /\ req[r].fmt = "text" =>
                /\ Len(response[r].text) = 3
                /\ response[r].text[1] = Rendered("_format_trader_details_text")
                /\ response[r].text[2] = Lit(Str("AI Summary:"))

\* C10: when the order-book request ends with a non-200 status or an
\* unparsable body, the request ends with {result: ...} and no session
\* record is written.
C10_OrderBookFailureReported ==
    \A r \in Requests :
        /\ Done(r)
        /\ Called(r, "get_order_book")
        /\ Called(r, "http_error") \/ Called(r, "bad_json")
        => /\ response[r].kind = "result"
           /\ NoFieldWritten(r)

(***************************************************************************)
(* Termination with a structured response.                                 *)
(***************************************************************************)
\* C11: every run of agent_ask ends with one structured response, {result},
\* {error} or {plan}, whatever the planner and the upstream do; none ends
\* with an exception.
C11_StructuredResponse ==
    \A r \in Requests : Done(r) => response[r].kind \in {"result", "error", "plan"}

(***************************************************************************)
(* memory.py.                                                              *)
(***************************************************************************)
\* the records of the ids other than sid are the ones of `pre`
OtherRecordsKept(pre, sid) ==
    /\ DOMAIN SESSION_MEMORY \ {sid} = DOMAIN pre \ {sid}
    /\ \A k \in DOMAIN pre \ {sid} : SESSION_MEMORY[k] = pre[k]

\* what a get_session_context that just returned has done
GetReturned ==
    LET c == last_call
    IN  /\ c.sid \in DOMAIN SESSION_MEMORY
        /\ c.out = SESSION_MEMORY[c.sid]
        /\ c.out = IF c.sid \in DOMAIN c.pre THEN c.pre[c.sid] ELSE EmptyContext
        /\ c.sid \in DOMAIN c.pre => SESSION_MEMORY = c.pre
        /\ OtherRecordsKept(c.pre, c.sid)

\* a get of the id of the get before it
GetAfterGet ==
    /\ last_call.fn = "get_session_context"
    /\ last_call'.fn = "get_session_context"
    /\ last_call'.sid = last_call.sid

\* C12: get_session_context returns the existing record and leaves the
\* store as it is, or stores and returns an empty record when there is
\* none; a get right after a get of the same id returns the same record;
\* and every id looked up and not cleared since has a record in the store.
C12_GetSessionContext ==
    /\ [](last_call.fn = "get_session_context" => GetReturned)
    /\ [](looked_up \subseteq DOMAIN SESSION_MEMORY)
    /\ [][GetAfterGet => last_call'.out = last_call.out]_vars

\* a get returned a record that holds fields, another id having been
\* looked up too
C12_Witness ==
    /\ last_call.fn = "get_session_context"
    /\ last_call.sid \in DOMAIN last_call.pre
    /\ last_call.out.last_condition_id = Str("c1")
    /\ last_call.out.last_markets.present
    /\ looked_up = SessionIds

\* C13: update_session_context creates the record if there is none and
\* sets each key of `updates` to its value there, every other key keeping
\* the value it had (a stored list is replaced, not merged); the records of
\* the other ids are unchanged.
C13_UpdateSessionContext ==
    last_call.fn = "update_session_context" =>
        LET c == last_call
            old == RecordOf(c.pre, c.sid)
            new == SESSION_MEMORY[c.sid]
        IN  /\ c.sid \in DOMAIN SESSION_MEMORY
            /\ new.last_condition_id =
                    IF c.updates.last_condition_id.t # "absent"
                    THEN c.updates.last_condition_id ELSE old.last_condition_id
            /\ new.last_trader_address =
                    IF c.updates.last_trader_address.t # "absent"
                    THEN c.updates.last_trader_address ELSE old.last_trader_address
            /\ new.last_markets =
                    IF c.updates.last_markets.present
                    THEN c.updates.last_markets ELSE old.last_markets
            /\ OtherRecordsKept(c.pre, c.sid)

\* an update replaced the condition id and the markets list of a record
\* and kept its trader address, next to the record of another id
C13_Witness ==
    /\ last_call.fn = "update_session_context"
    /\ last_call.sid \in DOMAIN last_call.pre
    /\ last_call.pre[last_call.sid].last_condition_id = Str("c1")
    /\ last_call.pre[last_call.sid].last_trader_address = Str("a1")
    /\ last_call.pre[last_call.sid].last_markets.items # <<>>
    /\ last_call.updates = Updates(Str("c2"), Absent, MarketList(<<>>))
    /\ DOMAIN SESSION_MEMORY = SessionIds

\* what a clear_session_context that just returned has done
Cleared ==
    LET c == last_call
    IN  /\ c.sid \notin DOMAIN SESSION_MEMORY
        /\ OtherRecordsKept(c.pre, c.sid)
        /\ c.sid \notin DOMAIN c.pre => SESSION_MEMORY = c.pre

\* a get of the id of the clear before it
GetAfterClear ==
    /\ last_call.fn = "clear_session_context"
    /\ last_call'.fn = "get_session_context"
    /\ last_call'.sid = last_call.sid

\* C14: clear_session_context removes the record of the id and no other
\* (nothing changes when the id has none); the next get of the id returns
\* an empty record.
C14_ClearSessionContext ==
    /\ [](last_call.fn = "clear_session_context" => Cleared)
    /\ [][GetAfterClear =>
            /\ last_call'.out = EmptyContext
            /\ SESSION_MEMORY'[last_call.sid] = EmptyContext]_vars

\* a record that held fields was cleared, the record of another id staying
C14_Witness ==
    /\ last_call.fn = "clear_session_context"
    /\ last_call.sid \in DOMAIN last_call.pre
    /\ last_call.pre[last_call.sid].last_trader_address = Str("a1")
    /\ last_call.pre[last_call.sid].last_markets.present
    /\ DOMAIN SESSION_MEMORY # {}

(***************************************************************************)
(* Concurrent requests on one session id.                                  *)
(***************************************************************************)
\* the field f of the record of sid is as its last writer left it, or as
\* it was at the start when no request wrote it
AsLastWritten(sid) ==
    LET rec == RecordOf(SESSION_MEMORY, sid)
    IN  /\ rec.last_condition_id = last_write[sid].last_condition_id.val
        /\ rec.last_trader_address = last_write[sid].last_trader_address.val
        /\ rec.last_markets = last_write[sid].last_markets.val

\* r is the only request that wrote the field, with the value it planned
SoleWriterKept(r) ==
    LET sid == req[r].session_id.s
    IN  /\ Returned(r, {"trades", "holders"})
           /\ last_write[sid].last_condition_id.by = {r}
           => Stored(r).last_condition_id = plan[r].key
        /\ Returned(r, {"closed", "trader"})
           /\ last_write[sid].last_trader_address.by = {r}
           => Stored(r).last_trader_address = plan[r].key
        /\ Returned(r, {"markets"}) /\ result[r].markets # <<>>
           /\ last_write[sid].last_markets.by = {r}
           => Stored(r).last_markets = MarketList(result[r].markets)

\* r wrote the field last, with the value it planned
LastWriterWon(r) ==
    LET sid == req[r].session_id.s
    IN  /\ Returned(r, {"trades", "holders"})
           /\ last_write[sid].last_condition_id.last = r
           => Stored(r).last_condition_id = plan[r].key
        /\ Returned(r, {"closed", "trader"})
           /\ last_write[sid].last_trader_address.last = r
           => Stored(r).last_trader_address = plan[r].key

\* C15: however two requests on one session id interleave, each field of
\* the record holds what the last request that wrote it wrote (at every
\* moment, so also when all have finished), a field only one request wrote
\* holds that request's value, and the id looked up keeps a record.
C15_LastWriterWins ==
    /\ \A sid \in SessionIds : AsLastWritten(sid)
    /\ \A r \in Requests : SoleWriterKept(r) /\ LastWriterWon(r)
    /\ looked_up \subseteq DOMAIN SESSION_MEMORY

\* both requests have finished; both wrote last_condition_id, r1 (with
\* its markets, c1) first and r2 (the trades of c2) last; only r1 wrote
\* last_markets
C15_Witness ==
    /\ \A r \in Requests : Done(r)
    /\ last_write["s1"].last_condition_id.by = {"r1", "r2"}
    /\ last_write["s1"].last_condition_id.last = "r2"
    /\ last_write["s1"].last_markets.by = {"r1"}
    /\ result["r2"].kind = "trades"
    /\ plan["r2"].key = Str("c2")
    /\ Stored("r1").last_condition_id = Str("c2")
    /\ Stored("r1").last_markets.items # <<>>

(***************************************************************************)
(* get_top_holders.                                                        *)
(***************************************************************************)
\* the holders of a /holders body whose outcomeIndex is k
Partition(raw_data, k) ==
    IF raw_data.shape # "list" THEN {}
    ELSE {h \in UNION {{t.holders[i] : i \in 1..Len(t.holders)} :
                        t \in {raw_data.tokens[j] : j \in 1..Len(raw_data.tokens)}} :
            h.outcomeIndex = Num(k)}

AmountOf(h) == IF h.amount.t = "absent" THEN 0 ELSE h.amount.n

\* `top` is the upto-5 largest of the holders in `part`, largest first
TopOf(top, part) ==
    /\ Len(top) = IF Cardinality(part) <= 5 THEN Cardinality(part) ELSE 5
    /\ \A i \in 1..Len(top) :
            \E h \in part : top[i].address = h.proxyWallet /\ top[i].amount.n = AmountOf(h)
    /\ \A i, j \in 1..Len(top) :
            /\ i < j => top[i].amount.n >= top[j].amount.n
            /\ i # j => top[i].address # top[j].address
    /\ \A h \in part :
            (\A i \in 1..Len(top) : top[i].address # h.proxyWallet)
            => \A i \in 1..Len(top) : top[i].amount.n >= AmountOf(h)

\* C16: the `yes` and `no` lists get_top_holders returns have at most 5
\* entries each, sorted by amount descending; they are the 5 largest (all,
\* when there are fewer) of the holders with outcomeIndex 1 and 0; a holder
\* with another outcomeIndex is in neither list.
C16_TopHolders ==
    last_call.fn = "get_top_holders" =>
        /\ TopOf(last_call.out.yes, Partition(last_call.arg, 1))
        /\ TopOf(last_call.out.no, Partition(last_call.arg, 0))

\* six holders of outcome 1 with different amounts, the largest arriving
\* last, and a holder of outcome 2 whose amount is larger than all
C16_Witness ==
    /\ last_call.fn = "get_top_holders"
    /\ Cardinality(Partition(last_call.arg, 1)) = 6
    /\ Cardinality(Partition(last_call.arg, 2)) = 1
    /\ Len(last_call.out.yes) = 5
    /\ last_call.out.yes[1].address = Str("6")
    /\ last_call.out.yes[1].amount.n > last_call.out.yes[5].amount.n

(***************************************************************************)
(* get_top_traders_by_pnl.                                                 *)
(***************************************************************************)
PnlOf(pos) == IF pos.cashPnl.t = "absent" THEN 0 ELSE pos.cashPnl.n

\* the indexes of the positions of the trader with the given address
PositionsFrom(positions, address) ==
    {i \in 1..Len(positions) : positions[i].proxyWallet = address}

RECURSIVE SumPnl(_, _)
SumPnl(positions, indexes) ==
    IF indexes = {} THEN 0
    ELSE LET i == CHOOSE i \in indexes : TRUE
         IN  PnlOf(positions[i]) + SumPnl(positions, indexes \ {i})

RECURSIVE SumTotals(_)
SumTotals(summary) ==
    IF summary = <<>> THEN 0 ELSE Head(summary).total_pnl + SumTotals(Tail(summary))

\* the first of the trader's positions whose pnl no other of them exceeds
BestPosition(positions, address) ==
    CHOOSE i \in PositionsFrom(positions, address) :
        \A j \in PositionsFrom(positions, address) :
            \/ PnlOf(positions[j]) < PnlOf(positions[i])
            \/ PnlOf(positions[j]) = PnlOf(positions[i]) /\ i <= j

TitleOf(pos) == IF pos.title.t = "absent" THEN Null ELSE pos.title

\* the addresses of the traders of a position list
Traders(positions) ==
    {positions[i].proxyWallet : i \in 1..Len(positions)} \ {Absent, Null, Str("")}

\* C17: the aggregation has one entry per trader of the position list; its
\* total_pnl is the sum of the cashPnl of the trader's positions, so the
\* totals add up to the sum over all positions of a trader; its
\* most_profitable_market is the title of the trader's highest-pnl position,
\* the first of them when several have that pnl.
C17_Aggregation ==
    last_call.fn = "get_top_traders_by_pnl" /\ last_call.arg.shape = "list" =>
        LET positions == last_call.arg.positions
            summary == last_call.out.summary
        IN  /\ {summary[i].address : i \in 1..Len(summary)} = Traders(positions)
            /\ Len(summary) = Cardinality(Traders(positions))
            /\ \A i \in 1..Len(summary) :
                    /\ summary[i].total_pnl =
                            SumPnl(positions, PositionsFrom(positions, summary[i].address))
                    /\ summary[i].most_profitable_market =
                            TitleOf(positions[BestPosition(positions, summary[i].address)])
            /\ SumTotals(summary) =
                    SumPnl(positions, {i \in 1..Len(positions) :
                                        positions[i].proxyWallet \in Traders(positions)})

\* trader a1 has three positions, the first with pnl -1 and two with its
\* highest pnl, and a position in the list has no address
C17_Witness ==
    /\ last_call.fn = "get_top_traders_by_pnl" /\ last_call.arg.shape = "list"
    /\ LET positions == last_call.arg.positions
           mine == PositionsFrom(positions, Str("a1"))
       IN  /\ Cardinality(mine) = 3
           /\ Cardinality({i \in mine : PnlOf(positions[i]) = 2}) = 2
           /\ PnlOf(positions[1]) = 0 - 1
           /\ \E i \in 1..Len(positions) : positions[i].proxyWallet = Absent
           /\ \E i \in 1..Len(last_call.out.summary) :
                   /\ last_call.out.summary[i].address = Str("a1")
                   /\ last_call.out.summary[i].total_pnl = 3

\* the first position of the trader with the given address
Arrival(positions, address) ==
    CHOOSE i \in PositionsFrom(positions, address) :
        \A j \in PositionsFrom(positions, address) : i <= j

\* C18: get_top_traders_by_pnl returns at most 5 traders, those of the
\* highest summed PNL, in descending order of it; traders of equal summed PNL
\* are in the order in which their first positions arrived.
C18_TopTraders ==
    last_call.fn = "get_top_traders_by_pnl" =>
        LET summary == last_call.out.summary
            top == last_call.out.top
            Entries(list) == {list[i] : i \in 1..Len(list)}
            First(e) == Arrival(last_call.arg.positions, e.address)
        IN  /\ Len(top) = IF Len(summary) <= 5 THEN Len(summary) ELSE 5
            /\ Cardinality(Entries(top)) = Len(top)
            /\ Entries(top) \subseteq Entries(summary)
            /\ \A e \in Entries(summary) \ Entries(top) :
                    \A i \in 1..Len(top) :
                        \/ top[i].total_pnl > e.total_pnl
                        \/ top[i].total_pnl = e.total_pnl /\ First(top[i]) < First(e)
            /\ \A i, j \in 1..Len(top) :
                    i < j => \/ top[i].total_pnl > top[j].total_pnl
                             \/ /\ top[i].total_pnl = top[j].total_pnl
                                /\ First(top[i]) < First(top[j])

\* six traders; a1, whose first position arrives before those of a3 and a5,
\* has their summed PNL and is returned before them; a2 is left out
C18_Witness ==
    /\ last_call.fn = "get_top_traders_by_pnl"
    /\ Len(last_call.out.summary) = 6
    /\ Len(last_call.out.top) = 5
    /\ last_call.out.top[1].address = Str("a1")
    /\ last_call.out.top[2].address = Str("a3")
    /\ last_call.out.top[1].total_pnl = last_call.out.top[3].total_pnl
    /\ \A i \in 1..5 : last_call.out.top[i].address # Str("a2")

(***************************************************************************)
(* _normalize_market.                                                      *)
(***************************************************************************)
MarketFields ==
    {"id", "question", "conditionId", "slug", "category", "liquidity", "volume",
     "startDate", "endDate", "active", "closed"}

\* the upstream value a Market field is made of: the first key's when it is
\* truthy, the fallback key's otherwise
Upstream(m, field) ==
    CASE field = "question" -> Or(m.question, m.title)
      [] field = "liquidity" -> Or(m.liquidityNum, m.liquidity)
      [] field = "volume" -> Or(m.volumeNum, m.volume)
      [] field = "startDate" -> Or(m.startDate, m.startDateIso)
      [] field = "endDate" -> Or(m.endDate, m.endDateIso)
      [] OTHER -> m[field]

StringFields == {"id", "question", "conditionId", "slug", "category", "startDate", "endDate"}
NumericFields == {"liquidity", "volume"}
BooleanFields == {"active", "closed"}

Missing(v) == v.t \in {"absent", "none"}

\* C19 as stated: exactly the 11 fields; a string field whose upstream value
\* is missing or no string is ""; a numeric field whose upstream value is
\* missing or neither a number nor a numeric string is 0.0; a missing boolean
\* field is false.
C19_AsStated ==
    last_call.fn = "_normalize_market" =>
        LET m == last_call.arg
            out == last_call.out
        IN  /\ DOMAIN out = MarketFields
            /\ \A f \in StringFields : Upstream(m, f).t # "str" => out[f] = ""
            /\ \A f \in NumericFields :
                    (Upstream(m, f).t # "num"
                     /\ ~(Upstream(m, f).t = "str" /\ IsNumeric(Upstream(m, f).s)))
                    => out[f] = 0
            /\ \A f \in BooleanFields : m[f].t = "absent" => out[f] = FALSE

\* C19: exactly the 11 fields; a string field is "" when its upstream value
\* is missing or null, the string itself when it is one, and the text str()
\* gives for a number or a boolean; a numeric field is the number, the
\* number a numeric string reads as, 1 or 0 for a boolean, and 0.0 for a
\* missing, null or other value; a boolean field is false when missing or
\* null and the truthiness of the value otherwise.
C19_Normalized ==
    last_call.fn = "_normalize_market" =>
        LET m == last_call.arg
            out == last_call.out
        IN  /\ DOMAIN out = MarketFields
            /\ \A f \in StringFields :
                    LET v == Upstream(m, f)
                    IN  /\ Missing(v) => out[f] = ""
                        /\ v.t = "str" => out[f] = v.s
                        /\ v = Num(2) => out[f] = "2"
                        /\ v = Bool(TRUE) => out[f] = "True"
            /\ \A f \in NumericFields :
                    LET v == Upstream(m, f)
                    IN  /\ Missing(v) => out[f] = 0
                        /\ v.t \in {"num", "bool"} => out[f] = v.n
                        /\ v.t = "str" =>
                                out[f] = IF \E d \in 1..10 : Digits[d] = v.s
                                         THEN (CHOOSE d \in 1..10 : Digits[d] = v.s) - 1
                                         ELSE 0
            /\ \A f \in BooleanFields :
                    /\ Missing(m[f]) => out[f] = FALSE
                    /\ m[f].t = "bool" => out[f] = (m[f].n = 1)
                    /\ m[f].t = "str" => out[f] = (m[f].s # "")

\* a market whose id is the number 2, whose question is missing but whose
\* title is not, whose liquidity is true and whose active is "false"
C19_Witness ==
    /\ last_call.fn = "_normalize_market"
    /\ last_call.arg.id = Num(2) /\ last_call.out.id = "2"
    /\ last_call.arg.question = Absent /\ last_call.out.question = "Rain"
    /\ last_call.arg.liquidity = Bool(TRUE) /\ last_call.out.liquidity = 1
    /\ last_call.arg.active = Str("false") /\ last_call.out.active = TRUE
    /\ last_call.out.conditionId = "" /\ last_call.out.volume = 0

(***************************************************************************)
(* get_markets_normalized.                                                 *)
(***************************************************************************)
\* `out` is the Markets of the object entries of `entries`, in their order
MarketsOf(out, entries) ==
    LET objects == {i \in 1..Len(entries) : entries[i].isobj}
        Rank(i) == Cardinality({j \in objects : j <= i})
    IN  /\ Len(out) = Cardinality(objects)
        /\ \A i \in objects : out[Rank(i)] = _normalize_market(entries[i])

\* the value an envelope is unwrapped to: data when truthy, else markets
Enveloped(raw) == IF FieldTruthy(raw.data) THEN raw.data ELSE raw.markets

\* C20: get_markets_normalized returns, for a bare list, one Market per
\* object entry in the list's order; for an envelope object, the Markets of
\* its data or markets field; for a bare object without those fields, the
\* list of that one object normalized.
C20_EveryShape ==
    last_call.fn = "get_markets_normalized" =>
        LET raw == last_call.arg
            out == last_call.out
        IN  /\ raw.shape = "list" => MarketsOf(out, raw.items)
            /\ raw.shape = "dict" /\ (raw.data # NoField \/ raw.markets # NoField)
                    => MarketsOf(out, Enveloped(raw).items)
            /\ raw.shape = "dict" /\ raw.data = NoField /\ raw.markets = NoField
                    => out = <<_normalize_market(raw.own)>>

(***************************************************************************)
(* summarize_trader_details.                                               *)
(***************************************************************************)
\* C21: when one of the three upstream calls of summarize_trader_details
\* fails, the function still returns a summary for the address, carrying
\* the results of the calls that succeeded.
C21_BestEffort ==
    last_call.fn = "summarize_trader_details" =>
        LET arg == last_call.arg
            out == last_call.out
        IN  /\ out.exc = ""
            /\ out.details.address = arg.address
            /\ arg.positions.status = "ok" => out.details.positions = arg.positions.body
            /\ arg.trades.status = "ok" => out.details.trades = arg.trades.body
            /\ arg.closed_positions.status = "ok"
                    => out.closed_positions = arg.closed_positions.body

(***************************************************************************)
(* _format_order_book_text.                                                *)
(***************************************************************************)
\* the order lines between the lines `from` and `to` of an outcome's part
Between(lines, from, to) ==
    LET a == CHOOSE i \in 1..Len(lines) : lines[i].kind = from
        b == IF to = "" THEN Len(lines) + 1
             ELSE CHOOSE i \in 1..Len(lines) : lines[i].kind = to
    IN  SelectSeq(SubSeq(lines, a + 1, b - 1), LAMBDA l : l.kind = "order")

\* the part of the text for an outcome
PartOf(lines, outcome) ==
    LET a == CHOOSE i \in 1..Len(lines) : lines[i].kind = outcome
        b == IF outcome = "yes" THEN CHOOSE i \in 1..Len(lines) : lines[i].kind = "no"
             ELSE Len(lines) + 1
    IN  SubSeq(lines, a, b - 1)

PriceOf(order) == IF order.price.t = "absent" THEN 0 ELSE order.price.n
SizeOf(order) == IF order.size.t = "absent" THEN 0 ELSE order.size.n

\* `listed` shows up to 5 of `orders`, best price first (highest when
\* `sign` is 1, lowest when it is -1): of each price the orders listed are
\* the first that arrived, all of them when the price is better than the
\* last one listed
BestListed(listed, orders, sign) ==
    LET Shown(p) == SelectSeq(listed, LAMBDA l : l.price = p)
        Sent(p) == SelectSeq(orders, LAMBDA o : PriceOf(o) = p)
        prices == {listed[i].price : i \in 1..Len(listed)}
                  \cup {PriceOf(orders[i]) : i \in 1..Len(orders)}
    IN  /\ Len(listed) = IF Len(orders) <= 5 THEN Len(orders) ELSE 5
        /\ \A i, j \in 1..Len(listed) :
                i < j => sign * listed[i].price >= sign * listed[j].price
        /\ \A p \in prices :
                /\ Len(Shown(p)) <= Len(Sent(p))
                /\ \A i \in 1..Len(Shown(p)) :
                        /\ Shown(p)[i].size = SizeOf(Sent(p)[i])
                        /\ Shown(p)[i].kind = "order"
                /\ (listed # <<>> /\ sign * p > sign * listed[Len(listed)].price)
                        => Len(Shown(p)) = Len(Sent(p))

Listing(lines, outcome) ==
    [bids |-> Between(PartOf(lines, outcome), "bids", "asks"),
     asks |-> Between(PartOf(lines, outcome), "asks", "")]

NoOutcomeError(order_book) ==
    order_book.yes.error.t = "absent" /\ order_book.no.error.t = "absent"

\* the outcome yes comes before the outcome no, and each side of each
\* outcome lists its best 5 orders, best first
SortedAndCut(order_book, lines) ==
    /\ \E i, j \in 1..Len(lines) : i < j /\ lines[i].kind = "yes" /\ lines[j].kind = "no"
    /\ \A outcome \in {"yes", "no"} :
            /\ BestListed(Listing(lines, outcome).bids, order_book[outcome].bids, 1)
            /\ BestListed(Listing(lines, outcome).asks, order_book[outcome].asks, 0 - 1)

\* C22 as stated: per outcome, yes then no, at most 5 bids in descending
\* price order, the 5 highest, and at most 5 asks in ascending price order,
\* the 5 lowest; the same orders in another upstream order render the same.
C22_AsStated ==
    last_call.fn = "_format_order_book_text" /\ NoOutcomeError(last_call.arg) =>
        /\ SortedAndCut(last_call.arg, last_call.out)
        /\ Listing(last_call.out, "yes") = Listing(last_call.out, "no")

\* C22: per outcome, yes then no, at most 5 bids in descending price order,
\* the 5 highest, and at most 5 asks in ascending price order, the 5 lowest;
\* orders of equal price are listed in their upstream order, so the same
\* orders in another upstream order render the same when no two orders of
\* different size have the same price.
C22_SortedByPrice ==
    last_call.fn = "_format_order_book_text" /\ NoOutcomeError(last_call.arg) =>
        /\ SortedAndCut(last_call.arg, last_call.out)
        /\ (\A i, j \in 1..Len(last_call.arg.yes.bids) :
                PriceOf(last_call.arg.yes.bids[i]) = PriceOf(last_call.arg.yes.bids[j])
                => SizeOf(last_call.arg.yes.bids[i]) = SizeOf(last_call.arg.yes.bids[j]))
            => Listing(last_call.out, "yes") = Listing(last_call.out, "no")

\* six orders a side of three prices, arriving lowest first for the outcome
\* yes and highest first for the outcome no: both list the same five
C22_Witness ==
    /\ last_call.fn = "_format_order_book_text"
    /\ Len(last_call.arg.yes.bids) = 6
    /\ PriceOf(last_call.arg.yes.bids[1]) = 0
    /\ PriceOf(last_call.arg.yes.bids[6]) = 2
    /\ \A i \in 1..6 : SizeOf(last_call.arg.yes.bids[i]) <= 1
    /\ Len(Listing(last_call.out, "yes").bids) = 5
    /\ Listing(last_call.out, "yes").bids[1].price = 2
    /\ Listing(last_call.out, "yes").asks[1].price = 0
    /\ Listing(last_call.out, "yes") = Listing(last_call.out, "no")

(***************************************************************************)
(* The formatters of trades.                                               *)
(***************************************************************************)
\* C23: a formatter applied twice to the same trades, at any two points of
\* an execution, returns the same text, also when a trade's timestamp is
\* absent or zero, and the session store is as it was.
C23_PureFormatter ==
    last_call.fn \in {"_format_trades_text", "_format_trader_details_text"} =>
        /\ last_call.out.first = last_call.out.second
        /\ SESSION_MEMORY = NoMemory

(***************************************************************************)
(* The order of the steps of agent_ask.                                    *)
(***************************************************************************)
\* the place of an event of `trace` among the steps of a run that executes a
\* tool; 0 for an event that is none of them
StepOf(e) ==
    CASE e = "validate" -> 1
      [] e \in UpstreamFunctions -> 2
      [] e = "update_session_context" -> 3
      [] e \in {"_format_markets_text", "_format_trades_text", "_format_order_book_text",
                "_format_top_holders_text", "_format_top_traders_text",
                "_format_closed_positions_text", "_format_trader_details_text"} -> 4
      [] e = "asi_chat:summary" -> 5
      [] OTHER -> 0

StepsInOrder(r) ==
    /\ \A i, j \in 1..Len(trace[r]) :
            (i < j /\ StepOf(trace[r][i]) > 0 /\ StepOf(trace[r][j]) > 0)
            => StepOf(trace[r][i]) < StepOf(trace[r][j])
    /\ Called(r, "asi_chat:summary") => plan[r].tool_name = Str("get_trader_details")
    /\ response[r].kind = "result" /\ result[r].kind # "unsupported"
            => CalledUpstream(r) /\ \E i \in 1..Len(trace[r]) : StepOf(trace[r][i]) = 4

\* C24: in a run of agent_ask that executes a tool the steps come in the
\* order validation, upstream call, session write-back, formatting, AI
\* summary (get_trader_details only), response; once the response is there
\* the run does nothing more and the store keeps its values.
C24_StepOrder ==
    /\ [](\A r \in Requests : StepsInOrder(r))
    /\ [][\A r \in Requests :
            pc[r] = "done" =>
                /\ trace'[r] \in {trace[r], <<>>}
                /\ FieldsOf(SESSION_MEMORY') = FieldsOf(SESSION_MEMORY)]_vars

\* a run of get_trader_details with a session id that made all the steps
C24_Witness ==
    /\ Done("r1") /\ response["r1"].kind = "result"
    /\ \A k \in 1..5 : \E i \in 1..Len(trace["r1"]) : StepOf(trace["r1"][i]) = k

(***************************************************************************)
(* Writes to the session store after a failure.                            *)
(***************************************************************************)
\* plan_with_tools raised in the run of r
PlannerFailed(r) == Called(r, "transport_error") \/ Called(r, "empty_choices")

\* the upstream function of r's tool raised
UpstreamFailed(r) == \E status \in HttpStatuses \ {"ok"} : Called(r, status)

\* get_order_book returned a result that carries an error
BookInError(r) == result[r].kind = "order_book" /\ result[r].book.error.t # "absent"

\* C25: at the end of a run of agent_ask in which the planner call or the
\* tool's upstream call failed, or get_order_book returned a result with an
\* error, every session record has the field values it had at the start,
\* and the run has not called update_session_context.
C25_NoWriteAfterFailure ==
    \A r \in Requests :
        Done(r) /\ (PlannerFailed(r) \/ UpstreamFailed(r) \/ BookInError(r))
        => NoFieldWritten(r)

\* a get_order_book run with a session id whose record holds an earlier
\* run's condition id ended with a result in error, the record as it was
C25_Witness ==
    /\ Done("r1") /\ BookInError("r1")
    /\ Truthy(req["r1"].session_id)
    /\ Truthy(plan["r1"].key)
    /\ Earlier("r1").last_condition_id.t = "str"
    /\ Stored("r1") = Earlier("r1")

(***************************************************************************)
(* One planned action per request.                                         *)
(***************************************************************************)
\* the places of r's run where one of the events happened
Occurrences(r, events) == {i \in 1..Len(trace[r]) : trace[r][i] \in events}

\* C26: a run of agent_ask invokes at most one Upstream Client function and
\* makes at most one session write-back; when the model's reply held one or
\* more tool calls, the planned tool is the first call's and the function
\* invoked, if any, is the one of that tool's branch.
C26_OnePlannedAction ==
    \A r \in Requests :
        /\ Cardinality(Occurrences(r, UpstreamFunctions)) <= 1
        /\ Cardinality(Occurrences(r, {"update_session_context"})) <= 1
        /\ plan[r].reply_names # <<>> =>
            /\ plan[r].tool_name = Get(plan[r].reply_names[1])
            /\ \A fn \in UpstreamFunctions :
                    Called(r, fn) =>
                        LET branch == Dispatch(Get(plan[r].reply_names[1]),
                                               plan[r].arguments)
                        IN  branch.kind = "call" /\ branch.fn = fn

\* the reply held get_trader_details and then get_top_holders: the run
\* called summarize_trader_details, wrote the trader address back and ended
\* without a call of get_top_holders
C26_Witness ==
    /\ Done("r1") /\ response["r1"].kind = "result"
    /\ Len(plan["r1"].reply_names) = 2
    /\ Get(plan["r1"].reply_names[2]) = Str("get_top_holders")
    /\ Called("r1", "summarize_trader_details")
    /\ Called("r1", "update_session_context")
    /\ ~Called("r1", "get_top_holders")

(***************************************************************************)
(* The hints of the planner's prompt.                                      *)
(***************************************************************************)
\* the values that the hints of one kind carry in a user message
HintsOf(message, hint) ==
    {message[i + 1] : i \in {j \in 1..(Len(message) - 1) : message[j] = hint}}

\* a context value that is there and is not empty
NonEmpty(v) == v.t = "str" /\ v.s # ""

\* what a message is expected to carry for a context value
Carried(v) == IF NonEmpty(v) THEN {v.s} ELSE {}

\* C27: the user message that plan_with_tools builds starts with the query,
\* carries the conditionId hint exactly when the context's
\* last_condition_id is non-empty and the trader-address hint exactly when
\* its last_trader_address is non-empty, each with the stored value; with
\* an empty context it is the query alone; the context is left as it was.
C27_ContextHints ==
    last_call.fn = "plan_with_tools" =>
        LET query == last_call.arg.query
            context == last_call.arg.session_context
            message == last_call.out.user_message
        IN  /\ message[1] = query
            /\ HintsOf(message, MarketHint) = Carried(context.last_condition_id)
            /\ HintsOf(message, TraderHint) = Carried(context.last_trader_address)
            /\ Len(message) = 1 + 3 * Cardinality({k \in {"last_condition_id",
                                                          "last_trader_address"} :
                                                    NonEmpty(context[k])})
            /\ context = EmptyContext => message = <<query>>
            /\ last_call.out.session_context = context
            /\ SESSION_MEMORY = NoMemory

\* a context with both keys set: the message carries both values
C27_Witness ==
    /\ last_call.fn = "plan_with_tools"
    /\ last_call.arg.session_context.last_condition_id = Str("c1")
    /\ last_call.arg.session_context.last_trader_address = Str("a1")
    /\ last_call.out.user_message =
            <<last_call.arg.query, MarketHint, "c1", "'. ", TraderHint, "a1", "'. ">>

(***************************************************************************)
(* The tool catalog and its executor branches.                             *)
(***************************************************************************)
\* C28: get_tool_schemas returns the same 7 uniquely named tools in every
\* state, and a planned catalog tool has an executor branch: the run does
\* not answer "Unknown tool", and the function its branch invokes is one
\* that the Upstream Client defines.
C28_CatalogExecutable ==
    /\ Len(get_tool_schemas) = 7
    /\ Cardinality(ToolNames) = 7
    /\ \A r \in Requests :
        HasPlan(r) /\ IsCatalogTool(plan[r].tool_name) =>
            LET branch == Dispatch(plan[r].tool_name, plan[r].arguments)
            IN  /\ branch.kind # "unknown"
                /\ response[r] # ErrorResponse(<<"Unknown tool: ",
                                                   PyStr(plan[r].tool_name)>>)
                /\ branch.kind = "call" => branch.fn \in ClientFunctions
                /\ \A fn \in UpstreamFunctions : Called(r, fn) => fn \in ClientFunctions

(***************************************************************************)
(* The context of the planner's prompt under concurrent requests.          *)
(***************************************************************************)
\* the record of r's session as it was at r's session lookup
SnapshotAtLookup(r) ==
    IF Truthy(req[r].session_id)
    THEN RecordOf(before[r], req[r].session_id.s)
    ELSE EmptyContext

\* C29: the hints of the user message that a request sends to the chat
\* model are those of its session record as it was at the request's session
\* lookup, whatever other requests have written to the record since.
C29_PromptFromSnapshot ==
    \A r \in Requests :
        plan[r].user_message # <<>> =>
            plan[r].user_message = user_message(req[r].query, SnapshotAtLookup(r))

(***************************************************************************)
(* Requests without a session id or without a query.                       *)
(***************************************************************************)
\* the request of r carries no session id: the key is absent, null or empty
NoSessionId(r) == ~Truthy(req[r].session_id)

\* the request of r has no query left after trimming
NoQuery(r) == req[r].query = ""

\* C30: a run of agent_ask whose request carries no session id, or whose
\* query is empty after trimming, calls neither get_session_context nor
\* update_session_context and leaves the session store, records and keys,
\* as it was, whatever tool was planned and however the run went; the run
\* of an empty query ends at once with {error: "Missing 'query' in body"},
\* having called neither the planner nor an upstream function.
C30_StoreUntouched ==
    \A r \in Requests :
        pc[r] # "idle" /\ (NoSessionId(r) \/ NoQuery(r)) =>
            /\ SESSION_MEMORY = before[r]
            /\ ~Called(r, "get_session_context")
            /\ ~Called(r, "update_session_context")
            /\ NoQuery(r) =>
                /\ pc[r] = "done"
                /\ response[r] = ErrorResponse(<<"Missing 'query' in body">>)
                /\ trace[r] = <<>>
                /\ plan[r] = NoPlan

\* a request without session id ran a tool to its result while the store
\* held the record of an earlier request
C30_Witness ==
    /\ Done("r1") /\ NoSessionId("r1") /\ ~NoQuery("r1")
    /\ response["r1"].kind = "result"
    /\ CalledUpstream("r1")
    /\ \E sid \in DOMAIN SESSION_MEMORY : SESSION_MEMORY[sid] # EmptyContext

====
